---- MODULE Spec2Model ----
(***************************************************************************)
(* A model of wasm-ast: the WebAssembly module AST with its builder, the   *)
(* binary emitter and the binary parser, all at the level of bytes.        *)
(*                                                                         *)
(* Bytes are the integers 0..255 and a byte stream is a sequence of them.  *)
(* Option<T> is a sequence of length 0 (None) or 1 (Some(x)).              *)
(* A parser result is a record [ok, value, rest, err].                     *)
(***************************************************************************)
EXTENDS Integers, Sequences, FiniteSets, TLC

(***************************************************************************)
(* Bounds of the model.                                                    *)
(***************************************************************************)
\* the integers -SmallRange..SmallRange are LEB128 inputs, next to the
\* values around every power of two
SmallRange == 70

\* the number of builder calls made before build()
MaxCalls == 3

\* the number of sections in a binary handed to the parser directly
MaxSections == 3

(***************************************************************************)
(* Option<T>                                                               *)
(***************************************************************************)
None == <<>>

Some(x) == <<x>>

IsSome(o) == Len(o) = 1

IsNone(o) == Len(o) = 0

Unwrap(o) == o[1]

(***************************************************************************)
(* Integer helpers                                                         *)
(*                                                                         *)
(* The LEB128 code computes on 128-bit integers and converts to the        *)
(* narrow type at the end.  A wide integer is held here as two limbs,      *)
(* [hi, lo] standing for hi * 2^28 + lo with 0 <= lo < 2^28, which covers  *)
(* every value a chain of up to 8 groups can hold.                         *)
(***************************************************************************)
RECURSIVE Pow2(_)
Pow2(n) == IF n = 0 THEN 1 ELSE 2 * Pow2(n - 1)

\* src/leb128/mod.rs: const RADIX: u8 = 128
RADIX == 128

\* src/leb128/mod.rs: const GROUP_BITS: usize = 7
GROUP_BITS == 7

\* src/leb128/mod.rs: const SIGN_BIT: usize = 6
SIGN_BIT == 6

\* the width of the integers encode_unsigned / encode_signed work on
WideBits == 128

\* the width of the low limb of a wide integer: four groups
LimbBits == 4 * GROUP_BITS

\* the wide integer hi * 2^LimbBits + lo, for any integer lo
WideNorm(hi, lo) == [hi |-> hi + (lo \div Pow2(LimbBits)), lo |-> lo % Pow2(LimbBits)]

\* i128::from(value) / u128::from(value)
Wide(value) == WideNorm(0, value)

\* the narrow integer a wide one converts to, when it is in range
Narrow(w) == w.hi * Pow2(LimbBits) + w.lo

\* value >>= GROUP_BITS (arithmetic on a signed value)
WideShr(w) ==
    [hi |-> w.hi \div RADIX,
     lo |-> (w.lo \div RADIX) + (w.hi % RADIX) * Pow2(LimbBits - GROUP_BITS)]

\* value != 0
WideNonZero(w) == w.hi # 0 \/ w.lo # 0

\* (value & 0xFF) as u8
WideLowByte(w) == w.lo % 256

\* T::try_from(result) succeeds for an unsigned T of the given width
FitsUnsigned(w, bits) == w.hi >= 0 /\ w.hi < Pow2(bits - LimbBits)

\* T::try_from(result) succeeds for a signed T of the given width
FitsSigned(w, bits) ==
    w.hi >= -Pow2(bits - 1 - LimbBits) /\ w.hi < Pow2(bits - 1 - LimbBits)

\* Bits::zero_bit_at(GROUP_BITS) on a u8
zero_bit_at7(byte) == byte % RADIX

\* Bits::one_bit_at(GROUP_BITS) on a u8
one_bit_at7(byte) == (byte % RADIX) + RADIX

\* Bits::bit_at(bit) on a u8
bit_at(byte, bit) == (byte \div Pow2(bit)) % 2 = 1

\* max_leb128_size without the byte for the remaining bits
max_leb128_size_floor(bits) == bits \div 7

\* max_leb128_size::<T>() for a T of the given number of bits
max_leb128_size(bits) == (bits \div 7) + (IF bits % 7 # 0 THEN 1 ELSE 0)

Ok(v, rest) == [ok |-> TRUE, value |-> v, rest |-> rest, err |-> ""]

Err(e) == [ok |-> FALSE, value |-> 0, rest |-> <<>>, err |-> e]

Drop(s, n) == SubSeq(s, n + 1, Len(s))

Take(s, n) == SubSeq(s, 1, n)

(***************************************************************************)
(* LEB128 (src/leb128/mod.rs)                                              *)
(***************************************************************************)
\* input.iter().position(|x| x & RADIX == 0): the 0-based index of the first
\* byte without the continuation bit, or -1 for None
RECURSIVE PositionFrom(_, _)
PositionFrom(input, i) ==
    IF i > Len(input) THEN -1
    ELSE IF input[i] \div RADIX = 0 THEN i - 1
    ELSE PositionFrom(input, i + 1)

position(input) == PositionFrom(input, 1)

\* the accumulation loop: result |= group << (index * GROUP_BITS), for the
\* first n bytes; the groups are disjoint, so | is +
RECURSIVE FoldGroups(_, _)
FoldGroups(bytes, n) ==
    IF n = 0 THEN [hi |-> 0, lo |-> 0]
    ELSE LET rest == FoldGroups(bytes, n - 1)
             group == zero_bit_at7(bytes[n])
             shift == (n - 1) * GROUP_BITS
         IN  IF shift < LimbBits
             THEN [hi |-> rest.hi, lo |-> rest.lo + group * Pow2(shift)]
             ELSE [hi |-> rest.hi + group * Pow2(shift - LimbBits), lo |-> rest.lo]

\* parse_unsigned::<T> for an unsigned T of the given number of bits, with
\* the value it returns held as a wide integer
parse_unsigned_wide(input, bits) ==
    LET end == position(input)
        max_size == max_leb128_size(bits)
    IN  IF end = -1 THEN Err("Invalid")
        ELSE IF end > max_size THEN Err("Overflow")
        ELSE LET length == end + 1
                 result == FoldGroups(input, length)
             IN  IF ~FitsUnsigned(result, bits) THEN Err("Conversion")
                 ELSE Ok(result, Drop(input, length))

\* a result whose wide value is below 2^31, with the value as an integer
NarrowResult(result) ==
    IF result.ok THEN Ok(Narrow(result.value), result.rest) ELSE result

\* parse_unsigned::<T> where the value is below 2^31
parse_unsigned(input, bits) == NarrowResult(parse_unsigned_wide(input, bits))

\* the loop of encode_unsigned on the wide value: one byte per iteration
RECURSIVE EncodeUnsignedLoop(_)
EncodeUnsignedLoop(w) ==
    LET low == zero_bit_at7(WideLowByte(w))
        next == WideShr(w)
    IN  IF WideNonZero(next) THEN <<one_bit_at7(low)>> \o EncodeUnsignedLoop(next)
        ELSE <<low>>

encode_unsigned(value) == EncodeUnsignedLoop(Wide(value))

\* result |= !0 << (length * GROUP_BITS) on the wide value
SignExtend(w, length) ==
    IF length * GROUP_BITS < LimbBits
    THEN WideNorm(w.hi, w.lo - Pow2(length * GROUP_BITS))
    ELSE [hi |-> w.hi - Pow2(length * GROUP_BITS - LimbBits), lo |-> w.lo]

\* parse_signed::<T> for a signed T of the given number of bits
parse_signed(input, bits) ==
    LET end == position(input)
        max_size == max_leb128_size(bits)
    IN  IF end = -1 THEN Err("Invalid")
        ELSE IF end > max_size THEN Err("Overflow")
        ELSE LET length == end + 1
                 groups == FoldGroups(input, length)
                 result == IF bit_at(input[length], SIGN_BIT)
                           THEN SignExtend(groups, length)
                           ELSE groups
             IN  IF ~FitsSigned(result, bits) THEN Err("Conversion")
                 ELSE Ok(Narrow(result), Drop(input, length))

\* the loop of encode_signed on the wide value.  value >>= 7 is an
\* arithmetic shift, so a negative value never becomes 0 and the loop never
\* ends; a value that does reach 0 does so within max_leb128_size::<i128>()
\* iterations, so running out of that many iterations is the loop not
\* returning (done = FALSE).
RECURSIVE EncodeSignedLoop(_, _)
EncodeSignedLoop(w, fuel) ==
    LET low == zero_bit_at7(WideLowByte(w))
        next == WideShr(w)
    IN  IF ~WideNonZero(next) THEN [done |-> TRUE, bytes |-> <<low>>]
        ELSE IF fuel = 0 THEN [done |-> FALSE, bytes |-> <<one_bit_at7(low)>>]
        ELSE LET tail == EncodeSignedLoop(next, fuel - 1)
             IN  [done |-> tail.done, bytes |-> <<one_bit_at7(low)>> \o tail.bytes]

encode_signed(value) == EncodeSignedLoop(Wide(value), max_leb128_size(WideBits))

(***************************************************************************)
(* Emitter: values (src/emitter/values.rs)                                 *)
(*                                                                         *)
(* An emit_* operator is the sequence of bytes the function writes to its  *)
(* output.  A CountingWrite that receives the same writes ends with        *)
(* bytes() equal to the length of that sequence.                           *)
(***************************************************************************)
RECURSIVE EmitCall(_, _)
emit_expression(expression) == EmitCall("emit_expression", <<expression>>)
EmitItem(kind, item) == EmitCall("EmitItem", <<kind, item>>)
emit_module_parts(module) == EmitCall("emit_module_parts", <<module>>)
emit_binary(module) == EmitCall("emit_binary", <<module>>)

emit_byte(byte) == <<byte>>

emit_u32(value) == encode_unsigned(value)

emit_usize(size) == encode_unsigned(size)

\* encode_signed returns only for the values whose loop ends
emit_i32(value) == encode_signed(value).bytes

emit_i64(value) == encode_signed(value).bytes

\* emit_i64 of a value held as a wide integer
emit_i64_wide(w) == EncodeSignedLoop(w, max_leb128_size(WideBits)).bytes

emit_bytes(value, include_length) ==
    (IF include_length THEN emit_usize(Len(value)) ELSE <<>>) \o value

emit_name(value) == emit_bytes(value, TRUE)

\* CountingWrite::bytes() after the given bytes were written to it
CountingWrite_bytes(written) == Len(written)

(***************************************************************************)
(* Emitter: types (src/emitter/types.rs)                                   *)
(***************************************************************************)
NumberTypes == {"I32", "I64", "F32", "F64"}

ReferenceTypes == {"FuncRef", "ExternRef"}

emit_number_type(kind) ==
    CASE kind = "I32" -> emit_byte(127)
      [] kind = "I64" -> emit_byte(126)
      [] kind = "F32" -> emit_byte(125)
      [] kind = "F64" -> emit_byte(124)

emit_reference_type(kind) ==
    CASE kind = "FuncRef" -> emit_byte(112)
      [] kind = "ExternRef" -> emit_byte(111)

emit_value_type(kind) ==
    IF kind \in NumberTypes THEN emit_number_type(kind) ELSE emit_reference_type(kind)

RECURSIVE emit_value_types(_)
emit_value_types(kinds) ==
    IF kinds = <<>> THEN <<>>
    ELSE emit_value_type(Head(kinds)) \o emit_value_types(Tail(kinds))

\* emit_vector(kind.kinds(), output, emit_value_type)
emit_result_type(kinds) == emit_usize(Len(kinds)) \o emit_value_types(kinds)

emit_function_type(kind) ==
    emit_byte(96) \o emit_result_type(kind.parameters) \o emit_result_type(kind.results)

emit_limit(limits) ==
    IF IsSome(limits.max)
    THEN emit_byte(1) \o emit_usize(limits.min) \o emit_usize(Unwrap(limits.max))
    ELSE emit_byte(0) \o emit_usize(limits.min)

emit_memory_type(kind) == emit_limit(kind.limits)

emit_table_type(kind) == emit_reference_type(kind.kind) \o emit_limit(kind.limits)

emit_global_type(kind) ==
    emit_value_type(kind.kind) \o emit_byte(IF kind.mutable THEN 1 ELSE 0)

(***************************************************************************)
(* Emitter: instructions (src/emitter/instruction.rs)                      *)
(*                                                                         *)
(* An instruction is [op, imm]: the variant and its integer immediates.    *)
(* The model holds the variants below; their opcodes are the emitter's.    *)
(***************************************************************************)
\* BlockType::None, BlockType::ValueType(kind), BlockType::Index(index); the
\* index is held as a wide integer, and the fields a variant does not have
\* hold a fixed filler
BlockType_None == [tag |-> "None", kind |-> "I32", index |-> [hi |-> 0, lo |-> 0]]

BlockType_ValueType(kind) == [tag |-> "ValueType", kind |-> kind, index |-> [hi |-> 0, lo |-> 0]]

BlockType_Index(index) == [tag |-> "Index", kind |-> "I32", index |-> index]

\* emit_block_type: Index(index) is written by emit_i64(index as i64)
emit_block_type(kind) ==
    CASE kind.tag = "Index" -> emit_i64_wide(kind.index)
      [] kind.tag = "ValueType" -> emit_value_type(kind.kind)
      [] kind.tag = "None" -> emit_byte(64)

\* an instruction and its immediates in the order of the variant's fields:
\* CallIndirect(TypeIndex, TableIndex) is Instr("CallIndirect", <<type, table>>)
Instr(op, imm) == [op |-> op, imm |-> imm]

RECURSIVE emit_instructions(_)
emit_instruction(instruction) ==
    LET imm == instruction.imm
    IN  CASE instruction.op = "Unreachable" -> emit_byte(0)
          [] instruction.op = "Nop" -> emit_byte(1)
          \* If(kind, positive, negative) is Instr("If", <<kind, positive, negative>>)
          [] instruction.op = "If" ->
                emit_byte(4) \o emit_block_type(imm[1])
                \o (IF IsSome(imm[3])
                    THEN emit_instructions(imm[2]) \o emit_byte(5)
                         \o emit_expression(Unwrap(imm[3]))
                    ELSE emit_expression(imm[2]))
          [] instruction.op = "Return" -> emit_byte(15)
          [] instruction.op = "Call" -> emit_byte(16) \o emit_u32(imm[1])
          \* the arm binds the fields as CallIndirect(table, kind) and writes
          \* kind, the second field, before table, the first
          [] instruction.op = "CallIndirect" ->
                emit_byte(17) \o emit_u32(imm[2]) \o emit_u32(imm[1])
          [] instruction.op = "Drop" -> emit_byte(26)
          [] instruction.op = "LocalGet" -> emit_byte(32) \o emit_u32(imm[1])
          [] instruction.op = "GlobalGet" -> emit_byte(35) \o emit_u32(imm[1])
          [] instruction.op = "I32Constant" -> emit_byte(65) \o emit_i32(imm[1])
          [] instruction.op = "I64Constant" -> emit_byte(66) \o emit_i64(imm[1])
          [] instruction.op = "RefIsNull" -> emit_byte(209)
          [] instruction.op = "RefFunc" -> emit_byte(210) \o emit_u32(imm[1])

\* emit_repeated(instructions, output, emit_instruction)
emit_instructions(instructions) ==
    IF instructions = <<>> THEN <<>>
    ELSE emit_instruction(Head(instructions)) \o emit_instructions(Tail(instructions))

emit_expression_body(expression) == emit_instructions(expression) \o emit_byte(11)

RECURSIVE emit_expressions(_)
emit_expressions(expressions) ==
    IF expressions = <<>> THEN <<>>
    ELSE emit_expression(Head(expressions)) \o emit_expressions(Tail(expressions))

(***************************************************************************)
(* Emitter: module components (src/emitter/module.rs)                      *)
(***************************************************************************)
RECURSIVE emit_locals(_)
emit_locals(kinds) ==
    IF kinds = <<>> THEN <<>>
    ELSE emit_u32(1) \o emit_value_type(Head(kinds)) \o emit_locals(Tail(kinds))

\* emit_function_code: "written" is what reaches the output, "returned" is
\* the usize it returns (the result of its last call, emit_expression)
emit_function_code(function) ==
    [written |-> emit_usize(Len(function.locals)) \o emit_locals(function.locals)
                 \o emit_expression(function.body),
     returned |-> Len(emit_expression(function.body))]

\* emit_function with the usize emit_function_code returns as the size
emit_function_returned(function) ==
    emit_usize(emit_function_code(function).returned)
    \o emit_function_code(function).written

emit_function(function) ==
    LET counter == CountingWrite_bytes(emit_function_code(function).written)
    IN  emit_usize(counter) \o emit_function_code(function).written

emit_import_description(import) ==
    CASE import.desc = "Function" -> emit_byte(0) \o emit_u32(import.index)
      [] import.desc = "Table" -> emit_byte(1) \o emit_table_type(import)
      [] import.desc = "Memory" -> emit_byte(2) \o emit_memory_type(import)
      [] import.desc = "Global" -> emit_byte(3) \o emit_global_type(import)

emit_import(import) ==
    emit_name(import.module) \o emit_name(import.name) \o emit_import_description(import)

emit_table(table) == emit_table_type(table)

emit_memory(memory) == emit_memory_type(memory)

emit_global(global) == emit_global_type(global) \o emit_expression(global.initializer)

emit_export_description(export) ==
    LET value == CASE export.desc = "Function" -> 0
                   [] export.desc = "Table" -> 1
                   [] export.desc = "Memory" -> 2
                   [] export.desc = "Global" -> 3
    IN  emit_byte(value) \o emit_u32(export.index)

emit_export(export) == emit_name(export.name) \o emit_export_description(export)

emit_start(start) == emit_u32(start)

is_function_indices(expressions) ==
    \A i \in 1..Len(expressions) :
        Len(expressions[i]) = 1 /\ expressions[i][1].op = "RefFunc"

\* emit_vector(expressions.iter().filter_map(extract_index), output, emit_u32)
RECURSIVE emit_indices(_)
emit_indices(expressions) ==
    IF expressions = <<>> THEN <<>>
    ELSE emit_u32(Head(expressions)[1].imm[1]) \o emit_indices(Tail(expressions))

emit_index_vector(expressions) == emit_usize(Len(expressions)) \o emit_indices(expressions)

emit_expression_vector(expressions) ==
    emit_usize(Len(expressions)) \o emit_expressions(expressions)

emit_element(element) ==
    LET expressions == element.initializers
        active == element.mode = "Active"
        fi == is_function_indices(expressions)
    IN  CASE active /\ element.table = 0 /\ element.kind = "FuncRef" /\ fi ->
               emit_byte(0) \o emit_expression(element.offset)
               \o emit_index_vector(expressions)
          [] element.mode = "Passive" /\ element.kind = "FuncRef" /\ fi ->
               emit_byte(1) \o emit_byte(0) \o emit_index_vector(expressions)
          [] active /\ fi /\ ~(element.table = 0 /\ element.kind = "FuncRef") ->
               emit_byte(2) \o emit_u32(element.table) \o emit_expression(element.offset)
               \o emit_reference_type(element.kind) \o emit_index_vector(expressions)
          [] element.mode = "Declarative" /\ fi ->
               emit_byte(3) \o emit_reference_type(element.kind)
               \o emit_index_vector(expressions)
          [] active /\ element.table = 0 /\ element.kind = "FuncRef" /\ ~fi ->
               emit_byte(4) \o emit_expression(element.offset)
               \o emit_expression_vector(expressions)
          [] element.mode = "Passive" /\ ~(element.kind = "FuncRef" /\ fi) ->
               emit_byte(5) \o emit_reference_type(element.kind)
               \o emit_expression_vector(expressions)
          [] active /\ ~fi /\ ~(element.table = 0 /\ element.kind = "FuncRef") ->
               emit_byte(6) \o emit_u32(element.table) \o emit_expression(element.offset)
               \o emit_reference_type(element.kind) \o emit_expression_vector(expressions)
          [] element.mode = "Declarative" /\ ~fi ->
               emit_byte(7) \o emit_reference_type(element.kind)
               \o emit_expression_vector(expressions)

emit_data(data) ==
    (CASE data.mode = "Active" /\ data.memory = 0 ->
            emit_byte(0) \o emit_expression(data.offset)
       [] data.mode = "Passive" -> emit_byte(1)
       [] data.mode = "Active" /\ data.memory # 0 ->
            emit_byte(2) \o emit_u32(data.memory) \o emit_expression(data.offset))
    \o emit_bytes(data.initializer, TRUE)

emit_custom_content(custom) == emit_name(custom.name) \o emit_bytes(custom.bytes, FALSE)

\* emit(item, output) of an emit_vector / emit_repeated call, by item kind
EmitItem_body(kind, item) ==
    CASE kind = "function_type" -> emit_function_type(item)
      [] kind = "import" -> emit_import(item)
      [] kind = "usize" -> emit_usize(item)
      [] kind = "table" -> emit_table(item)
      [] kind = "memory" -> emit_memory(item)
      [] kind = "global" -> emit_global(item)
      [] kind = "export" -> emit_export(item)
      [] kind = "element" -> emit_element(item)
      [] kind = "function" -> emit_function(item)
      [] kind = "data" -> emit_data(item)

RECURSIVE emit_repeated(_, _)
emit_repeated(kind, items) ==
    IF items = <<>> THEN <<>>
    ELSE EmitItem(kind, Head(items)) \o emit_repeated(kind, Tail(items))

emit_vector(kind, items) == emit_usize(Len(items)) \o emit_repeated(kind, items)

(***************************************************************************)
(* ModuleSection (src/model/module.rs, src/emitter/sections.rs): the       *)
(* discriminants, which are the section ids.                               *)
(***************************************************************************)
SecCustom == 0

SecType == 1

SecImport == 2

SecFunction == 3

SecTable == 4

SecMemory == 5

SecGlobal == 6

SecExport == 7

SecStart == 8

SecElement == 9

SecCode == 10

SecData == 11

SecDataCount == 12

ModuleSections == SecCustom..SecDataCount

(***************************************************************************)
(* Emitter: sections (src/emitter/sections.rs)                             *)
(***************************************************************************)
PREAMBLE == <<0, 97, 115, 109>>

VERSION == <<1, 0, 0, 0>>

\* "version".as_bytes()
VersionName == <<118, 101, 114, 115, 105, 111, 110>>

\* about::VERSION.as_bytes(): the crate's version string, "0.1.0"
about_VERSION == <<48, 46, 49, 46, 48>>

\* the slice an accessor of the module hands to the emitter: the items of
\* the section, none when the section is absent
SectionItems(field) == IF IsSome(field) THEN Unwrap(field) ELSE <<>>

\* emit_section: the payload is rendered into a CountingWrite, then the id,
\* the counter and the payload again are written to the output
emit_section(section, payload) ==
    emit_byte(section) \o emit_usize(CountingWrite_bytes(payload)) \o payload

emit_version_custom_section ==
    emit_section(SecCustom, emit_name(VersionName) \o emit_bytes(about_VERSION, FALSE))

emit_type_section(module) ==
    IF SectionItems(module.function_types) = <<>> THEN <<>>
    ELSE emit_section(SecType,
                      emit_vector("function_type", SectionItems(module.function_types)))

emit_import_section(module) ==
    IF SectionItems(module.imports) = <<>> THEN <<>>
    ELSE emit_section(SecImport, emit_vector("import", SectionItems(module.imports)))

\* module.functions().iter().map(Function::kind).collect()
FunctionKinds(functions) == [i \in 1..Len(functions) |-> functions[i].kind]

emit_function_section(module) ==
    IF SectionItems(module.functions) = <<>> THEN <<>>
    ELSE emit_section(SecFunction,
                      emit_vector("usize", FunctionKinds(SectionItems(module.functions))))

emit_table_section(module) ==
    IF SectionItems(module.tables) = <<>> THEN <<>>
    ELSE emit_section(SecTable, emit_vector("table", SectionItems(module.tables)))

emit_memory_section(module) ==
    IF SectionItems(module.memories) = <<>> THEN <<>>
    ELSE emit_section(SecMemory, emit_vector("memory", SectionItems(module.memories)))

emit_global_section(module) ==
    IF SectionItems(module.globals) = <<>> THEN <<>>
    ELSE emit_section(SecGlobal, emit_vector("global", SectionItems(module.globals)))

emit_export_section(module) ==
    IF SectionItems(module.exports) = <<>> THEN <<>>
    ELSE emit_section(SecExport, emit_vector("export", SectionItems(module.exports)))

emit_start_section(module) ==
    IF IsSome(module.start) THEN emit_section(SecStart, emit_start(Unwrap(module.start)))
    ELSE <<>>

emit_element_section(module) ==
    IF SectionItems(module.elements) = <<>> THEN <<>>
    ELSE emit_section(SecElement, emit_vector("element", SectionItems(module.elements)))

emit_data_count_section(module) ==
    IF SectionItems(module.data) = <<>> THEN <<>>
    ELSE emit_section(SecDataCount, emit_usize(Len(SectionItems(module.data))))

emit_code_section(module) ==
    IF SectionItems(module.functions) = <<>> THEN <<>>
    ELSE emit_section(SecCode, emit_vector("function", SectionItems(module.functions)))

emit_data_section(module) ==
    IF SectionItems(module.data) = <<>> THEN <<>>
    ELSE emit_section(SecData, emit_vector("data", SectionItems(module.data)))

\* emit_module with the code section written before the data count section
emit_module_parts_by_id(module) ==
    << emit_version_custom_section,
       emit_type_section(module),
       emit_import_section(module),
       emit_function_section(module),
       emit_table_section(module),
       emit_memory_section(module),
       emit_global_section(module),
       emit_export_section(module),
       emit_start_section(module),
       emit_element_section(module),
       emit_code_section(module),
       emit_data_count_section(module),
       emit_data_section(module) >>

\* what the calls of emit_module after the preamble and the version write,
\* call by call (an empty sequence for a call that writes nothing)
emit_module_parts_body(module) ==
    << emit_version_custom_section,
       emit_type_section(module),
       emit_import_section(module),
       emit_function_section(module),
       emit_table_section(module),
       emit_memory_section(module),
       emit_global_section(module),
       emit_export_section(module),
       emit_start_section(module),
       emit_element_section(module),
       emit_data_count_section(module),
       emit_code_section(module),
       emit_data_section(module) >>

RECURSIVE Concat(_)
Concat(seqs) == IF seqs = <<>> THEN <<>> ELSE Head(seqs) \o Concat(Tail(seqs))

emit_module(module) ==
    emit_bytes(PREAMBLE, FALSE) \o emit_bytes(VERSION, FALSE)
    \o Concat(emit_module_parts(module))

\* emit_binary
emit_binary_body(module) == emit_module(module)

\* The usize the emitters return.  Every emitter adds up what its calls
\* return ("bytes += ..."), and the writers at the bottom return the length
\* of what they write; emit_function_code alone returns the result of its
\* last call only, and emit_function, emit_vector, emit_section and
\* emit_module carry that number up.
emit_function_bytes(function) ==
    LET counter == CountingWrite_bytes(emit_function_code(function).written)
    IN  Len(emit_usize(counter)) + emit_function_code(function).returned

\* emit_iterator over functions: the sum of what emit_function returns
RECURSIVE emit_repeated_bytes(_)
emit_repeated_bytes(functions) ==
    IF functions = <<>> THEN 0
    ELSE emit_function_bytes(Head(functions)) + emit_repeated_bytes(Tail(functions))

emit_code_section_bytes(module) ==
    LET functions == SectionItems(module.functions)
        counter == CountingWrite_bytes(emit_vector("function", functions))
    IN  IF functions = <<>> THEN 0
        ELSE Len(emit_byte(SecCode)) + Len(emit_usize(counter))
             + Len(emit_usize(Len(functions))) + emit_repeated_bytes(functions)

\* the position of the emit_code_section call among the calls of emit_module
\* after the preamble and the version
CodeSectionCall == 12

RECURSIVE emit_module_bytes_from(_, _, _)
emit_module_bytes_from(module, parts, call) ==
    IF call > Len(parts) THEN 0
    ELSE (IF call = CodeSectionCall THEN emit_code_section_bytes(module)
          ELSE Len(parts[call]))
         + emit_module_bytes_from(module, parts, call + 1)

\* the usize emit_module, and so emit_binary, returns; parts is what the
\* calls after the preamble and the version write
emit_module_bytes(module, parts) ==
    Len(emit_bytes(PREAMBLE, FALSE)) + Len(emit_bytes(VERSION, FALSE))
    + emit_module_bytes_from(module, parts, 1)

\* Every emitter above is entered through EmitCall, so that an emitter which
\* calls another applies one recursive operator.
EmitCall(name, args) ==
    CASE name = "emit_expression" -> emit_expression_body(args[1])
      [] name = "EmitItem" -> EmitItem_body(args[1], args[2])
      [] name = "emit_module_parts" -> emit_module_parts_body(args[1])
      [] name = "emit_binary" -> emit_binary_body(args[1])

(***************************************************************************)
(* Parser: values (src/parser/values.rs)                                   *)
(***************************************************************************)
RECURSIVE ParseCall(_, _)
parse_u32(input) == ParseCall("parse_u32", <<input>>)
parse_name(input) == ParseCall("parse_name", <<input>>)
parse_value_type(input) == ParseCall("parse_value_type", <<input>>)
parse_limit(input) == ParseCall("parse_limit", <<input>>)
parse_expression(input) == ParseCall("parse_expression", <<input>>)
parse_block_type(input) == ParseCall("parse_block_type", <<input>>)

ParseIf(input) == ParseCall("ParseIf", <<input>>)

parse_instruction(input) == ParseCall("parse_instruction", <<input>>)

parse_expression_with_terminal(terminal, input) ==
    ParseCall("parse_expression_with_terminal", <<terminal, input>>)
ParseItem(kind, input) == ParseCall("ParseItem", <<kind, input>>)
parse_section(section, input) == ParseCall("parse_section", <<section, input>>)
parse_binary(input) == ParseCall("parse_binary", <<input>>)

match_byte(byte, input) ==
    IF input # <<>> /\ input[1] = byte THEN Ok(byte, Tail(input)) ELSE Err("Error")

\* take(count): exactly count bytes, an error when fewer are left
take(count, input) ==
    IF Len(input) >= count THEN Ok(Take(input, count), Drop(input, count))
    ELSE Err("Error")

\* take_while_m_n(0, n, |x| x & RADIX != 0): how many bytes it takes
RECURSIVE ContinuationRun(_, _)
ContinuationRun(input, n) ==
    IF n = 0 \/ input = <<>> \/ input[1] \div RADIX = 0 THEN 0
    ELSE 1 + ContinuationRun(Tail(input), n - 1)

\* part << (index * 7) on a u32: the bits shifted past bit 31 are lost
TruncateU32(w) == [hi |-> w.hi % Pow2(32 - LimbBits), lo |-> w.lo]

\* parse_u32: up to four bytes with the continuation bit, then one without;
\* the value it returns is held as a wide integer
parse_u32_wide(input) ==
    LET run == ContinuationRun(input, max_leb128_size(32) - 1)
        remaining == Drop(input, run)
    IN  IF remaining = <<>> \/ remaining[1] \div RADIX # 0 THEN Err("Error")
        ELSE Ok(TruncateU32(FoldGroups(input, run + 1)), Tail(remaining))

\* parse_u32 where the value is below 2^31
parse_u32_body(input) == NarrowResult(parse_u32_wide(input))

\* parse_s33: up to four bytes with the continuation bit, then one without,
\* accumulated in an i64, sign-extended when bit 6 of the last byte is set,
\* then u32::try_from; the value is held as a wide integer
parse_s33(input) ==
    LET run == ContinuationRun(input, 4)
        remaining == Drop(input, run)
        length == run + 1
        groups == FoldGroups(input, length)
        result == IF bit_at(remaining[1], SIGN_BIT)
                  THEN SignExtend(groups, length)
                  ELSE groups
    IN  IF remaining = <<>> \/ remaining[1] \div RADIX # 0 THEN Err("Error")
        ELSE IF ~FitsUnsigned(result, 32) THEN Err("Error")
        ELSE Ok(result, Tail(remaining))

\* parse_s32 and parse_s64 return 0 and leave the input where it is
parse_s32(input) == Ok(0, input)

parse_s64(input) == Ok(0, input)

\* std::str::from_utf8 on the byte sequences of the model: ASCII and
\* two-byte sequences (lead bytes 0xE0 and above do not occur in the model)
RECURSIVE from_utf8_ok(_)
from_utf8_ok(bytes) ==
    IF bytes = <<>> THEN TRUE
    ELSE IF bytes[1] < 128 THEN from_utf8_ok(Tail(bytes))
    ELSE IF bytes[1] >= 194 /\ bytes[1] <= 223 /\ Len(bytes) >= 2
            /\ bytes[2] >= 128 /\ bytes[2] <= 191
         THEN from_utf8_ok(Drop(bytes, 2))
    ELSE FALSE

parse_byte_vector(input) ==
    LET length == parse_u32(input)
    IN  IF ~length.ok THEN Err("Error") ELSE take(length.value, length.rest)

parse_name_body(input) ==
    LET bytes == parse_byte_vector(input)
    IN  IF bytes.ok /\ from_utf8_ok(bytes.value) THEN bytes ELSE Err("Error")

(***************************************************************************)
(* Parser: types (src/parser/types.rs)                                     *)
(***************************************************************************)
parse_reference_type(input) ==
    IF match_byte(112, input).ok THEN Ok("FuncRef", Tail(input))
    ELSE IF match_byte(111, input).ok THEN Ok("ExternRef", Tail(input))
    ELSE Err("Error")

parse_number_type(input) ==
    IF match_byte(127, input).ok THEN Ok("I32", Tail(input))
    ELSE IF match_byte(126, input).ok THEN Ok("I64", Tail(input))
    ELSE IF match_byte(125, input).ok THEN Ok("F32", Tail(input))
    ELSE IF match_byte(124, input).ok THEN Ok("F64", Tail(input))
    ELSE Err("Error")

parse_value_type_body(input) ==
    IF parse_number_type(input).ok THEN parse_number_type(input)
    ELSE parse_reference_type(input)

\* fold_many_m_n(length, length, parse_value_type, ...)
RECURSIVE parse_value_types(_, _)
parse_value_types(length, input) ==
    IF length = 0 THEN Ok(<<>>, input)
    ELSE LET item == parse_value_type(input)
         IN  IF ~item.ok THEN Err("Error")
             ELSE LET tail == parse_value_types(length - 1, item.rest)
                  IN  IF ~tail.ok THEN Err("Error")
                      ELSE Ok(<<item.value>> \o tail.value, tail.rest)

parse_result_type(input) ==
    LET length == parse_u32(input)
    IN  IF ~length.ok THEN Err("Error") ELSE parse_value_types(length.value, length.rest)

parse_function_type(input) ==
    LET tag == match_byte(96, input)
        parameters == parse_result_type(tag.rest)
        results == parse_result_type(parameters.rest)
    IN  IF tag.ok /\ parameters.ok /\ results.ok
        THEN Ok([parameters |-> parameters.value, results |-> results.value], results.rest)
        ELSE Err("Error")

parse_limit_body(input) ==
    LET min == parse_u32(Tail(input))
        max == parse_u32(min.rest)
    IN  IF match_byte(0, input).ok /\ min.ok
        THEN Ok([min |-> min.value, max |-> None], min.rest)
        ELSE IF match_byte(1, input).ok /\ min.ok /\ max.ok
        THEN Ok([min |-> min.value, max |-> Some(max.value)], max.rest)
        ELSE Err("Error")

parse_memory_type(input) ==
    LET limit == parse_limit(input)
    IN  IF limit.ok THEN Ok([limits |-> limit.value], limit.rest) ELSE Err("Error")

parse_table_type(input) ==
    LET kind == parse_reference_type(input)
        limit == parse_limit(kind.rest)
    IN  IF kind.ok /\ limit.ok
        THEN Ok([kind |-> kind.value, limits |-> limit.value], limit.rest)
        ELSE Err("Error")

parse_global_type(input) ==
    LET kind == parse_value_type(input)
    IN  IF kind.ok /\ match_byte(0, kind.rest).ok
        THEN Ok([kind |-> kind.value, mutable |-> FALSE], Tail(kind.rest))
        ELSE IF kind.ok /\ match_byte(1, kind.rest).ok
        THEN Ok([kind |-> kind.value, mutable |-> TRUE], Tail(kind.rest))
        ELSE Err("Error")

(***************************************************************************)
(* Parser: instructions (src/parser/instructions.rs)                       *)
(*                                                                         *)
(* The opcodes of the variants the model holds.  0x05 and 0x0B are no      *)
(* instruction.  The binaries of the model carry no other byte where an    *)
(* instruction is read.                                                    *)
(***************************************************************************)
EXPRESSION_END == 11

\* a variant with one u32 immediate: preceded(match_byte(opcode), parse_u32)
ParseIndexed(op, input) ==
    LET index == parse_u32(Tail(input))
    IN  IF index.ok THEN Ok(Instr(op, <<index.value>>), index.rest) ELSE Err("Error")

\* preceded(match_byte(0x11), tuple((parse_u32, parse_u32))) mapped to
\* CallIndirect(first, second)
ParseCallIndirect(input) ==
    LET type_index == parse_u32(Tail(input))
        table_index == parse_u32(type_index.rest)
    IN  IF ~type_index.ok THEN Err("Error")
        ELSE IF ~table_index.ok THEN Err("Error")
        ELSE Ok(Instr("CallIndirect", <<type_index.value, table_index.value>>),
                table_index.rest)

\* parse_block_type: alt of 0x40, a value type, parse_s33
parse_block_type_body(input) ==
    LET kind == parse_value_type(input)
        index == parse_s33(input)
    IN  IF match_byte(64, input).ok THEN Ok(BlockType_None, Tail(input))
        ELSE IF kind.ok THEN Ok(BlockType_ValueType(kind.value), kind.rest)
        ELSE IF index.ok THEN Ok(BlockType_Index(index.value), index.rest)
        ELSE Err("Error")

\* the opcode that ends the first arm of an if that has a second arm
EXPRESSION_ELSE == 5

\* the first of the two alternatives for 0x04 only
ParseIfWithoutElse(input) ==
    LET kind == parse_block_type(Tail(input))
        expression == parse_expression(kind.rest)
    IN  IF ~kind.ok THEN Err("Error")
        ELSE IF expression.ok
        THEN Ok(Instr("If", <<kind.value, expression.value, None>>), expression.rest)
        ELSE Err("Error")

\* the two alternatives for 0x04, in their order: block type and an
\* expression; block type, an expression ended by 0x05 and an expression
ParseIf_body(input) ==
    LET kind == parse_block_type(Tail(input))
        expression == parse_expression(kind.rest)
        true_expression == parse_expression_with_terminal(EXPRESSION_ELSE, kind.rest)
        false_expression == parse_expression(true_expression.rest)
    IN  IF ~kind.ok THEN Err("Error")
        ELSE IF expression.ok
        THEN Ok(Instr("If", <<kind.value, expression.value, None>>), expression.rest)
        ELSE IF ~true_expression.ok THEN Err("Error")
        ELSE IF ~false_expression.ok THEN Err("Error")
        ELSE Ok(Instr("If", <<kind.value, true_expression.value,
                              Some(false_expression.value)>>),
                false_expression.rest)

parse_instruction_body(input) ==
    IF input = <<>> THEN Err("Error")
    ELSE CASE input[1] = 0 -> Ok(Instr("Unreachable", <<>>), Tail(input))
           [] input[1] = 1 -> Ok(Instr("Nop", <<>>), Tail(input))
           [] input[1] = 4 -> ParseIf(input)
           [] input[1] = 15 -> Ok(Instr("Return", <<>>), Tail(input))
           [] input[1] = 16 -> ParseIndexed("Call", input)
           [] input[1] = 17 -> ParseCallIndirect(input)
           [] input[1] = 26 -> Ok(Instr("Drop", <<>>), Tail(input))
           [] input[1] = 32 -> ParseIndexed("LocalGet", input)
           [] input[1] = 35 -> ParseIndexed("GlobalGet", input)
           [] input[1] = 65 ->
                Ok(Instr("I32Constant", <<parse_s32(Tail(input)).value>>),
                   parse_s32(Tail(input)).rest)
           [] input[1] = 66 ->
                Ok(Instr("I64Constant", <<parse_s64(Tail(input)).value>>),
                   parse_s64(Tail(input)).rest)
           [] input[1] = 209 -> Ok(Instr("RefIsNull", <<>>), Tail(input))
           [] input[1] = 210 -> ParseIndexed("RefFunc", input)
           [] OTHER -> Err("Error")

\* fold_many0(parse_instruction, ...): instructions until one fails
RECURSIVE parse_instructions(_)
parse_instructions(input) ==
    LET item == parse_instruction(input)
    IN  IF ~item.ok THEN Ok(<<>>, input)
        ELSE LET tail == parse_instructions(item.rest)
             IN  Ok(<<item.value>> \o tail.value, tail.rest)

parse_expression_with_terminal_body(terminal, input) ==
    LET instructions == parse_instructions(input)
    IN  IF match_byte(terminal, instructions.rest).ok
        THEN Ok(instructions.value, Tail(instructions.rest))
        ELSE Err("Error")

parse_expression_body(input) == parse_expression_with_terminal(EXPRESSION_END, input)

(***************************************************************************)
(* Parser: module components (src/parser/module.rs)                        *)
(***************************************************************************)
DefaultLimit == [min |-> 0, max |-> None]

\* Import::new(module, name, description); the fields a description does
\* not have hold a fixed filler
Import(module, name, desc, index, kind, limits, mutable) ==
    [module |-> module, name |-> name, desc |-> desc, index |-> index,
     kind |-> kind, limits |-> limits, mutable |-> mutable]

ImportFunction(module, name, index) ==
    Import(module, name, "Function", index, "", DefaultLimit, FALSE)

ImportTable(module, name, type) ==
    Import(module, name, "Table", 0, type.kind, type.limits, FALSE)

ImportMemory(module, name, type) ==
    Import(module, name, "Memory", 0, "", type.limits, FALSE)

ImportGlobal(module, name, type) ==
    Import(module, name, "Global", 0, type.kind, DefaultLimit, type.mutable)

parse_import(input) ==
    LET module == parse_name(input)
        name == parse_name(module.rest)
        body == Tail(name.rest)
    IN  IF ~(module.ok /\ name.ok /\ name.rest # <<>>) THEN Err("Error")
        ELSE CASE name.rest[1] = 0 /\ parse_u32(body).ok ->
                    Ok(ImportFunction(module.value, name.value, parse_u32(body).value),
                       parse_u32(body).rest)
               [] name.rest[1] = 1 /\ parse_table_type(body).ok ->
                    Ok(ImportTable(module.value, name.value, parse_table_type(body).value),
                       parse_table_type(body).rest)
               [] name.rest[1] = 2 /\ parse_memory_type(body).ok ->
                    Ok(ImportMemory(module.value, name.value, parse_memory_type(body).value),
                       parse_memory_type(body).rest)
               [] name.rest[1] = 3 /\ parse_global_type(body).ok ->
                    Ok(ImportGlobal(module.value, name.value, parse_global_type(body).value),
                       parse_global_type(body).rest)
               [] OTHER -> Err("Error")

parse_table(input) == parse_table_type(input)

parse_memory(input) == parse_memory_type(input)

parse_global(input) ==
    LET kind == parse_global_type(input)
        initializer == parse_expression(kind.rest)
    IN  IF kind.ok /\ initializer.ok
        THEN Ok([kind |-> kind.value.kind, mutable |-> kind.value.mutable,
                 initializer |-> initializer.value], initializer.rest)
        ELSE Err("Error")

\* Data::passive / Data::active; a passive segment has no memory and offset
Data(mode, memory, offset, initializer) ==
    [mode |-> mode, memory |-> memory, offset |-> offset, initializer |-> initializer]

parse_data(input) ==
    IF input = <<>> THEN Err("Error")
    ELSE LET body == Tail(input)
         IN  CASE input[1] = 0 ->
                    LET offset == parse_expression(body)
                        bytes == parse_byte_vector(offset.rest)
                    IN  IF offset.ok /\ bytes.ok
                        THEN Ok(Data("Active", 0, offset.value, bytes.value), bytes.rest)
                        ELSE Err("Error")
               [] input[1] = 1 ->
                    LET bytes == parse_byte_vector(body)
                    IN  IF bytes.ok
                        THEN Ok(Data("Passive", 0, <<>>, bytes.value), bytes.rest)
                        ELSE Err("Error")
               [] input[1] = 2 ->
                    LET memory == parse_u32(body)
                        offset == parse_expression(memory.rest)
                        bytes == parse_byte_vector(offset.rest)
                    IN  IF memory.ok /\ offset.ok /\ bytes.ok
                        THEN Ok(Data("Active", memory.value, offset.value, bytes.value),
                                bytes.rest)
                        ELSE Err("Error")
               [] OTHER -> Err("Error")

parse_start(input) == parse_u32(input)

parse_export(input) ==
    LET name == parse_name(input)
        index == parse_u32(Tail(name.rest))
    IN  IF name.ok /\ name.rest # <<>> /\ name.rest[1] \in 0..3 /\ index.ok
        THEN Ok([name |-> name.value,
                 desc |-> CASE name.rest[1] = 0 -> "Function"
                            [] name.rest[1] = 1 -> "Table"
                            [] name.rest[1] = 2 -> "Memory"
                            [] name.rest[1] = 3 -> "Global",
                 index |-> index.value], index.rest)
        ELSE Err("Error")

\* Element::passive / active / declarative; only an active segment has a
\* table and an offset
Element(kind, mode, table, offset, initializers) ==
    [kind |-> kind, mode |-> mode, table |-> table, offset |-> offset,
     initializers |-> initializers]

\* Vec<FunctionIndex>::to_initializers (src/model/module.rs)
to_initializers(functions) ==
    [i \in 1..Len(functions) |-> <<Instr("RefFunc", <<functions[i]>>)>>]

\* fold_many_m_n(length, length, parse_u32, ...)
RECURSIVE parse_u32s(_, _)
parse_u32s(length, input) ==
    IF length = 0 THEN Ok(<<>>, input)
    ELSE LET item == parse_u32(input)
         IN  IF ~item.ok THEN Err("Error")
             ELSE LET tail == parse_u32s(length - 1, item.rest)
                  IN  IF ~tail.ok THEN Err("Error")
                      ELSE Ok(<<item.value>> \o tail.value, tail.rest)

\* parse_vector(parse_u32)
parse_u32_vector(input) ==
    LET length == parse_u32(input)
    IN  IF ~length.ok THEN Err("Error") ELSE parse_u32s(length.value, length.rest)

RECURSIVE parse_expressions(_, _)
parse_expressions(length, input) ==
    IF length = 0 THEN Ok(<<>>, input)
    ELSE LET item == parse_expression(input)
         IN  IF ~item.ok THEN Err("Error")
             ELSE LET tail == parse_expressions(length - 1, item.rest)
                  IN  IF ~tail.ok THEN Err("Error")
                      ELSE Ok(<<item.value>> \o tail.value, tail.rest)

\* parse_vector(parse_expression)
parse_expression_vector(input) ==
    LET length == parse_u32(input)
    IN  IF ~length.ok THEN Err("Error") ELSE parse_expressions(length.value, length.rest)

parse_element(input) ==
    IF input = <<>> THEN Err("Error")
    ELSE LET body == Tail(input)
         IN  CASE input[1] = 0 ->
                    LET offset == parse_expression(body)
                        functions == parse_u32_vector(offset.rest)
                    IN  IF offset.ok /\ functions.ok
                        THEN Ok(Element("FuncRef", "Active", 0, offset.value,
                                        to_initializers(functions.value)), functions.rest)
                        ELSE Err("Error")
               [] input[1] = 1 ->
                    LET functions == parse_u32_vector(Tail(body))
                    IN  IF match_byte(0, body).ok /\ functions.ok
                        THEN Ok(Element("FuncRef", "Passive", 0, <<>>,
                                        to_initializers(functions.value)), functions.rest)
                        ELSE Err("Error")
               [] input[1] = 2 ->
                    LET table == parse_u32(body)
                        offset == parse_expression(table.rest)
                        functions == parse_u32_vector(Tail(offset.rest))
                    IN  IF table.ok /\ offset.ok /\ match_byte(0, offset.rest).ok
                           /\ functions.ok
                        THEN Ok(Element("FuncRef", "Active", table.value, offset.value,
                                        to_initializers(functions.value)), functions.rest)
                        ELSE Err("Error")
               [] input[1] = 3 ->
                    LET functions == parse_u32_vector(Tail(body))
                    IN  IF match_byte(0, body).ok /\ functions.ok
                        THEN Ok(Element("FuncRef", "Declarative", 0, <<>>,
                                        to_initializers(functions.value)), functions.rest)
                        ELSE Err("Error")
               [] input[1] = 4 ->
                    LET offset == parse_expression(body)
                        initializers == parse_expression_vector(offset.rest)
                    IN  IF offset.ok /\ initializers.ok
                        THEN Ok(Element("FuncRef", "Active", 0, offset.value,
                                        initializers.value), initializers.rest)
                        ELSE Err("Error")
               [] input[1] = 5 ->
                    LET kind == parse_reference_type(body)
                        initializers == parse_expression_vector(kind.rest)
                    IN  IF kind.ok /\ initializers.ok
                        THEN Ok(Element(kind.value, "Passive", 0, <<>>,
                                        initializers.value), initializers.rest)
                        ELSE Err("Error")
               [] input[1] = 6 ->
                    LET table == parse_u32(body)
                        offset == parse_expression(table.rest)
                        kind == parse_reference_type(offset.rest)
                        initializers == parse_expression_vector(kind.rest)
                    IN  IF table.ok /\ offset.ok /\ kind.ok /\ initializers.ok
                        THEN Ok(Element(kind.value, "Active", table.value, offset.value,
                                        initializers.value), initializers.rest)
                        ELSE Err("Error")
               [] input[1] = 7 ->
                    LET kind == parse_reference_type(body)
                        initializers == parse_expression_vector(kind.rest)
                    IN  IF kind.ok /\ initializers.ok
                        THEN Ok(Element(kind.value, "Declarative", 0, <<>>,
                                        initializers.value), initializers.rest)
                        ELSE Err("Error")
               [] OTHER -> Err("Error")

\* (0..count).map(|_| kind)
Repeat(kind, count) == [i \in 1..count |-> kind]

\* the fold with one local per run, whatever its count
RECURSIVE parse_local_runs_single(_, _)
parse_local_runs_single(length, input) ==
    IF length = 0 THEN Ok(<<>>, input)
    ELSE LET count == parse_u32(input)
             kind == parse_value_type(count.rest)
         IN  IF ~(count.ok /\ kind.ok) THEN Err("Error")
             ELSE LET tail == parse_local_runs_single(length - 1, kind.rest)
                  IN  IF ~tail.ok THEN Err("Error")
                      ELSE Ok(<<kind.value>> \o tail.value, tail.rest)

\* the fold of parse_locals over its (count, value type) runs
RECURSIVE parse_local_runs(_, _)
parse_local_runs(length, input) ==
    IF length = 0 THEN Ok(<<>>, input)
    ELSE LET count == parse_u32(input)
             kind == parse_value_type(count.rest)
         IN  IF ~(count.ok /\ kind.ok) THEN Err("Error")
             ELSE LET tail == parse_local_runs(length - 1, kind.rest)
                  IN  IF ~tail.ok THEN Err("Error")
                      ELSE Ok(Repeat(kind.value, count.value) \o tail.value, tail.rest)

parse_locals(input) ==
    LET length == parse_u32(input)
    IN  IF ~length.ok THEN Err("Error") ELSE parse_local_runs(length.value, length.rest)

\* the value is the pair (locals, body)
parse_code(input) ==
    LET size == parse_u32(input)
        code == take(size.value, size.rest)
        locals == parse_locals(code.value)
        body == parse_expression(locals.rest)
    IN  IF size.ok /\ code.ok /\ locals.ok /\ body.ok /\ body.rest = <<>>
        THEN Ok([locals |-> locals.value, body |-> body.value], code.rest)
        ELSE Err("Error")

parse_custom_content(input) ==
    LET name == parse_name(input)
    IN  IF name.ok THEN Ok([name |-> name.value, bytes |-> name.rest], <<>>)
        ELSE Err("Error")

(***************************************************************************)
(* The module and its builder (src/model/module.rs)                        *)
(*                                                                         *)
(* custom_sections is the HashMap<ModuleSection, Vec<Custom>>: a key       *)
(* without an entry maps to None.                                          *)
(***************************************************************************)
CustomSections_new == [point \in ModuleSections |-> None]

Module_empty ==
    [function_types |-> None, functions |-> None, tables |-> None,
     memories |-> None, globals |-> None, elements |-> None, data |-> None,
     start |-> None, imports |-> None, exports |-> None,
     custom_sections |-> CustomSections_new, data_count |-> None]

custom_sections_at(module, insertion_point) == module.custom_sections[insertion_point]

\* the keys of the HashMap
CustomKeys(sections) == {point \in ModuleSections : IsSome(sections[point])}

\* the comparison without the test of the two lengths
CustomSections_eq_keys(self, other) ==
    \A key \in CustomKeys(self) : key \in CustomKeys(other) /\ self[key] = other[key]

\* impl PartialEq for CustomSections
CustomSections_eq(self, other) ==
    /\ Cardinality(CustomKeys(self)) = Cardinality(CustomKeys(other))
    /\ \A key \in CustomKeys(self) : key \in CustomKeys(other) /\ self[key] = other[key]

\* #[derive(PartialEq)] for Module
Module_eq(self, other) ==
    /\ self.function_types = other.function_types
    /\ self.functions = other.functions
    /\ self.tables = other.tables
    /\ self.memories = other.memories
    /\ self.globals = other.globals
    /\ self.elements = other.elements
    /\ self.data = other.data
    /\ self.start = other.start
    /\ self.imports = other.imports
    /\ self.exports = other.exports
    /\ CustomSections_eq(self.custom_sections, other.custom_sections)
    /\ self.data_count = other.data_count

\* Function::new
Function(kind, locals, body) == [kind |-> kind, locals |-> locals, body |-> body]

\* Option::get_or_insert_with(Vec::new) followed by push
Pushed(field, item) == Some(Append(SectionItems(field), item))

\* set_custom_sections with None clearing the whole map
set_custom_sections_clear(module, insertion_point, custom_sections) ==
    IF IsSome(custom_sections)
    THEN [module EXCEPT !.custom_sections[insertion_point] = custom_sections]
    ELSE [module EXCEPT !.custom_sections = CustomSections_new]

\* CustomSections::set_custom_sections: insert for Some, remove for None
set_custom_sections(module, insertion_point, custom_sections) ==
    [module EXCEPT !.custom_sections[insertion_point] = custom_sections]

\* CustomSections::add_custom_section
add_custom_section(module, insertion_point, custom_section) ==
    [module EXCEPT !.custom_sections[insertion_point] = Pushed(@, custom_section)]

\* ModuleBuilder::include_data_count
\* include_data_count with an absent data segment counted as no segments
include_data_count_or_zero(module) ==
    [module EXCEPT !.data_count =
        Some(IF IsSome(module.data) THEN Len(Unwrap(module.data)) ELSE 0)]

include_data_count(module) ==
    [module EXCEPT !.data_count =
        IF IsSome(module.data) THEN Some(Len(Unwrap(module.data))) ELSE None]

(***************************************************************************)
(* Parser: sections (src/parser/sections.rs)                               *)
(***************************************************************************)
\* the item parser handed to parse_vector, by item kind
ParseItem_body(kind, input) ==
    CASE kind = "function_type" -> parse_function_type(input)
      [] kind = "import" -> parse_import(input)
      [] kind = "u32" -> parse_u32(input)
      [] kind = "table" -> parse_table(input)
      [] kind = "memory" -> parse_memory(input)
      [] kind = "global" -> parse_global(input)
      [] kind = "export" -> parse_export(input)
      [] kind = "element" -> parse_element(input)
      [] kind = "code" -> parse_code(input)
      [] kind = "data" -> parse_data(input)

\* fold_many_m_n(length, length, parser, ...)
RECURSIVE parse_items(_, _, _)
parse_items(kind, length, input) ==
    IF length = 0 THEN Ok(<<>>, input)
    ELSE LET item == ParseItem(kind, input)
         IN  IF ~item.ok THEN Err("Error")
             ELSE LET tail == parse_items(kind, length - 1, item.rest)
                  IN  IF ~tail.ok THEN Err("Error")
                      ELSE Ok(<<item.value>> \o tail.value, tail.rest)

parse_vector(kind, input) ==
    LET length == parse_u32(input)
    IN  IF ~length.ok THEN Err("Error") ELSE parse_items(kind, length.value, length.rest)

parse_section_raw(section, input) ==
    LET id == match_byte(section, input)
        length == parse_u32(id.rest)
    IN  IF id.ok /\ length.ok THEN take(length.value, length.rest) ELSE Err("Error")

\* the parser a section's content is handed to, by section
ParseContent(section, input) ==
    CASE section = SecCustom -> parse_custom_content(input)
      [] section = SecType -> parse_vector("function_type", input)
      [] section = SecImport -> parse_vector("import", input)
      [] section = SecFunction -> parse_vector("u32", input)
      [] section = SecTable -> parse_vector("table", input)
      [] section = SecMemory -> parse_vector("memory", input)
      [] section = SecGlobal -> parse_vector("global", input)
      [] section = SecExport -> parse_vector("export", input)
      [] section = SecStart -> parse_start(input)
      [] section = SecElement -> parse_vector("element", input)
      [] section = SecDataCount -> parse_u32(input)
      [] section = SecCode -> parse_vector("code", input)
      [] section = SecData -> parse_vector("data", input)

\* map_parser(parse_section_raw(section), all_consuming(parser))
parse_section_body(section, input) ==
    LET raw == parse_section_raw(section, input)
        content == ParseContent(section, raw.value)
    IN  IF raw.ok /\ content.ok /\ content.rest = <<>> THEN Ok(content.value, raw.rest)
        ELSE Err("Error")

\* opt(parser): None, with nothing consumed, when the parser fails
opt(result, input) ==
    IF result.ok THEN Ok(Some(result.value), result.rest) ELSE Ok(None, input)

\* opt(parse_section(section, ...)): parse_type_section, parse_import_section, ...
parse_optional_section(section, input) == opt(parse_section(section, input), input)

\* the custom sections fold_many1 collects after its first one
RECURSIVE parse_custom_sections_more(_)
parse_custom_sections_more(input) ==
    LET item == parse_section(SecCustom, input)
    IN  IF ~item.ok THEN Ok(<<>>, input)
        ELSE LET tail == parse_custom_sections_more(item.rest)
             IN  Ok(<<item.value>> \o tail.value, tail.rest)

\* parse_custom_section without the first section of each run
parse_custom_section_rest(input) ==
    LET first == parse_section(SecCustom, input)
    IN  IF ~first.ok THEN Ok(None, input)
        ELSE Ok(Some(parse_custom_sections_more(first.rest).value),
                parse_custom_sections_more(first.rest).rest)

\* opt(fold_many1(parse_section(ModuleSection::Custom, parse_custom_content), ...))
parse_custom_section(input) ==
    LET first == parse_section(SecCustom, input)
    IN  IF ~first.ok THEN Ok(None, input)
        ELSE Ok(Some(parse_custom_sections_more(input).value),
                parse_custom_sections_more(input).rest)

(***************************************************************************)
(* Parser: parse_binary (src/parser/mod.rs)                                *)
(***************************************************************************)
\* tag(bytes)
tag(bytes, input) ==
    IF Len(input) >= Len(bytes) /\ Take(input, Len(bytes)) = bytes
    THEN Ok(bytes, Drop(input, Len(bytes)))
    ELSE Err("Error")

\* codes.zip(signatures).map(...): the pairs up to the shorter of the two
zip_functions(signatures, codes) ==
    IF IsSome(codes) /\ IsSome(signatures)
    THEN LET cs == Unwrap(codes)
             ss == Unwrap(signatures)
             n == IF Len(cs) < Len(ss) THEN Len(cs) ELSE Len(ss)
         IN  Some([i \in 1..n |-> Function(ss[i], cs[i].locals, cs[i].body)])
    ELSE None

\* validate_function_counts without the comparison of the two lengths
validate_function_presence(codes, signatures) ==
    IF IsNone(codes) /\ IsNone(signatures) THEN TRUE
    ELSE IsSome(codes) /\ IsSome(signatures)

\* TRUE for Ok(()), FALSE for Err(MismatchedFunctionParts)
validate_function_counts(codes, signatures) ==
    IF IsNone(codes) /\ IsNone(signatures) THEN TRUE
    ELSE IsSome(codes) /\ IsSome(signatures)
         /\ Len(Unwrap(codes)) = Len(Unwrap(signatures))

\* the section parse_binary reads at each of its steps, and the insertion
\* point of the custom sections it reads after it
ParseOrder ==
    << SecType, SecImport, SecFunction, SecTable, SecMemory, SecGlobal,
       SecExport, SecStart, SecElement, SecDataCount, SecCode, SecData >>

\* the steps of parse_binary from its k-th section on: "found" maps each
\* section to what its parser returned, "customs" each insertion point to
\* the custom sections read after it.  Every call of a parser ends in "?".
RECURSIVE ParseSteps(_, _, _, _)
ParseSteps(k, input, found, customs) ==
    IF k > Len(ParseOrder)
    THEN [ok |-> TRUE, found |-> found, customs |-> customs, rest |-> input,
          err |-> ""]
    ELSE LET section == ParseOrder[k]
             content == parse_optional_section(section, input)
             found2 == [found EXCEPT ![section] = content.value]
             custom == parse_custom_section(content.rest)
             customs2 == [customs EXCEPT ![section] = custom.value]
         IN  IF ~content.ok
             THEN [ok |-> FALSE, found |-> found, customs |-> customs, rest |-> input,
                   err |-> "InvalidBinary"]
             ELSE IF section = SecCode
                     /\ ~validate_function_counts(content.value, found[SecFunction])
             THEN [ok |-> FALSE, found |-> found, customs |-> customs, rest |-> input,
                   err |-> "MismatchedFunctionParts"]
             ELSE IF ~custom.ok
             THEN [ok |-> FALSE, found |-> found, customs |-> customs, rest |-> input,
                   err |-> "InvalidBinary"]
             ELSE ParseSteps(k + 1, custom.rest, found2, customs2)

\* parse_binary without all_consuming around its last parser
parse_binary_prefix(input) ==
    LET preamble == tag(PREAMBLE, input)
        version == tag(VERSION, preamble.rest)
    IN  IF ~(preamble.ok /\ version.ok) THEN Err("InvalidBinary")
        ELSE LET leading == parse_custom_section(version.rest)
                 steps == ParseSteps(1, leading.rest,
                                     [section \in ModuleSections |-> None],
                                     [CustomSections_new EXCEPT
                                         ![SecCustom] = leading.value])
                 found == steps.found
             IN  IF ~steps.ok THEN Err(steps.err)
                 ELSE Ok([function_types |-> found[SecType],
                          functions |-> zip_functions(found[SecFunction], found[SecCode]),
                          tables |-> found[SecTable],
                          memories |-> found[SecMemory],
                          globals |-> found[SecGlobal],
                          elements |-> found[SecElement],
                          data |-> found[SecData],
                          start |-> found[SecStart],
                          imports |-> found[SecImport],
                          exports |-> found[SecExport],
                          custom_sections |-> steps.customs,
                          data_count |-> found[SecDataCount]], <<>>)

parse_binary_body(input) ==
    LET preamble == tag(PREAMBLE, input)
        version == tag(VERSION, preamble.rest)
    IN  IF ~(preamble.ok /\ version.ok) THEN Err("InvalidBinary")
        ELSE LET leading == parse_custom_section(version.rest)
                 steps == ParseSteps(1, leading.rest,
                                     [section \in ModuleSections |-> None],
                                     [CustomSections_new EXCEPT
                                         ![SecCustom] = leading.value])
                 found == steps.found
             IN  IF ~steps.ok THEN Err(steps.err)
                 \* all_consuming(parse_custom_section) after the data section
                 ELSE IF steps.rest # <<>> THEN Err("InvalidBinary")
                 ELSE Ok([function_types |-> found[SecType],
                          functions |-> zip_functions(found[SecFunction], found[SecCode]),
                          tables |-> found[SecTable],
                          memories |-> found[SecMemory],
                          globals |-> found[SecGlobal],
                          elements |-> found[SecElement],
                          data |-> found[SecData],
                          start |-> found[SecStart],
                          imports |-> found[SecImport],
                          exports |-> found[SecExport],
                          custom_sections |-> steps.customs,
                          data_count |-> found[SecDataCount]], <<>>)

\* Every parser above is entered through ParseCall, so that a parser which
\* calls another applies one recursive operator.
ParseCall(name, args) ==
    CASE name = "parse_u32" -> parse_u32_body(args[1])
      [] name = "parse_name" -> parse_name_body(args[1])
      [] name = "parse_value_type" -> parse_value_type_body(args[1])
      [] name = "parse_limit" -> parse_limit_body(args[1])
      [] name = "parse_expression" -> parse_expression_body(args[1])
      [] name = "parse_expression_with_terminal" ->
            parse_expression_with_terminal_body(args[1], args[2])
      [] name = "parse_block_type" -> parse_block_type_body(args[1])
      [] name = "ParseIf" -> ParseIf_body(args[1])
      [] name = "parse_instruction" -> parse_instruction_body(args[1])
      [] name = "ParseItem" -> ParseItem_body(args[1], args[2])
      [] name = "parse_section" -> parse_section_body(args[1], args[2])
      [] name = "parse_binary" -> parse_binary_body(args[1])

(***************************************************************************)
(* State                                                                   *)
(*   pc      where the run is: building, built, emitted, parsed (Spec);    *)
(*           input, parsed (SpecParse); start, encoded, diverged, decoded  *)
(*           (SpecLeb)                                                     *)
(*   module  the module held by the ModuleBuilder, then the built Module   *)
(*   calls   the number of builder calls made                              *)
(*   binary  the bytes written by emit_binary / handed to parse_binary /   *)
(*           written by the LEB128 encoder                                 *)
(*   layout  the sections of binary, in order: [id, bytes, valid]          *)
(*   parsed  the result of parse_binary / of the LEB128 decoder            *)
(*   value   the integer handed to the LEB128 encoder                      *)
(***************************************************************************)
VARIABLES pc, module, calls, binary, layout, parsed, value

vars == <<pc, module, calls, binary, layout, parsed, value>>

NoResult == [ok |-> FALSE, value |-> 0, rest |-> <<>>, err |-> "none"]

(***************************************************************************)
(* The items handed to the builder                                         *)
(***************************************************************************)
Nop == Instr("Nop", <<>>)

FunctionTypeItems ==
    { [parameters |-> <<>>, results |-> <<>>],
      [parameters |-> <<"I64">>, results |-> <<"F64">>] }

FunctionItems ==
    { Function(0, <<>>, <<Nop>>),
      Function(1, <<"I32", "F64">>, <<Instr("LocalGet", <<0>>), Instr("Drop", <<>>)>>) }

TableItems == { [kind |-> "FuncRef", limits |-> [min |-> 1, max |-> None]] }

MemoryItems == { [limits |-> [min |-> 1, max |-> Some(2)]] }

GlobalItems ==
    { [kind |-> "I64", mutable |-> FALSE,
       initializer |-> <<Instr("I64Constant", <<0>>)>>] }

ElementItems ==
    { Element("FuncRef", "Passive", 0, <<>>, to_initializers(<<0>>)),
      Element("ExternRef", "Passive", 0, <<>>, <<>>) }

DataItems ==
    { Data("Passive", 0, <<>>, <<42>>),
      Data("Active", 0, <<Instr("GlobalGet", <<0>>)>>, <<1, 2>>) }

ImportItems ==
    { ImportFunction(<<116>>, <<102>>, 0),
      ImportMemory(<<116>>, <<109>>, [limits |-> [min |-> 0, max |-> None]]) }

ExportItems == { [name |-> <<102>>, desc |-> "Function", index |-> 0] }

CustomItems ==
    { [name |-> VersionName, bytes |-> <<48, 46, 49, 46, 48>>],
      [name |-> <<97>>, bytes |-> <<>>] }

\* the insertion points the builder is handed
CustomPoints == {SecCustom, SecType, SecCode, SecData, SecDataCount}

\* what a set_* call is handed for a section: absent or present and empty
SectionValues == {None, Some(<<>>)}

(***************************************************************************)
(* Spec: the builder, build(), emit_binary, parse_binary of the output     *)
(***************************************************************************)
Init ==
    /\ pc = "building"
    /\ module = Module_empty
    /\ calls = 0
    /\ binary = <<>>
    /\ layout = <<>>
    /\ parsed = NoResult
    /\ value = 0

\* a builder call that leaves the module as given
Call(newModule) ==
    /\ pc = "building"
    /\ calls < MaxCalls
    /\ calls' = calls + 1
    /\ module' = newModule
    /\ UNCHANGED <<pc, binary, layout, parsed, value>>

AddFunctionType ==
    \E item \in FunctionTypeItems :
        Call([module EXCEPT !.function_types = Pushed(@, item)])

AddFunction ==
    \E item \in FunctionItems : Call([module EXCEPT !.functions = Pushed(@, item)])

AddTable == \E item \in TableItems : Call([module EXCEPT !.tables = Pushed(@, item)])

AddMemory == \E item \in MemoryItems : Call([module EXCEPT !.memories = Pushed(@, item)])

AddGlobal == \E item \in GlobalItems : Call([module EXCEPT !.globals = Pushed(@, item)])

AddElement == \E item \in ElementItems : Call([module EXCEPT !.elements = Pushed(@, item)])

AddData == \E item \in DataItems : Call([module EXCEPT !.data = Pushed(@, item)])

AddImport == \E item \in ImportItems : Call([module EXCEPT !.imports = Pushed(@, item)])

AddExport == \E item \in ExportItems : Call([module EXCEPT !.exports = Pushed(@, item)])

SetFunctionTypes == \E v \in SectionValues : Call([module EXCEPT !.function_types = v])

SetFunctions == \E v \in SectionValues : Call([module EXCEPT !.functions = v])

SetTables == \E v \in SectionValues : Call([module EXCEPT !.tables = v])

SetMemories == \E v \in SectionValues : Call([module EXCEPT !.memories = v])

SetGlobals == \E v \in SectionValues : Call([module EXCEPT !.globals = v])

SetElements == \E v \in SectionValues : Call([module EXCEPT !.elements = v])

SetData == \E v \in SectionValues : Call([module EXCEPT !.data = v])

SetImports == \E v \in SectionValues : Call([module EXCEPT !.imports = v])

SetExports == \E v \in SectionValues : Call([module EXCEPT !.exports = v])

SetStart == \E v \in {None, Some(0)} : Call([module EXCEPT !.start = v])

SetDataCount ==
    \E v \in {None, Some(0), Some(1)} : Call([module EXCEPT !.data_count = v])

IncludeDataCount == Call(include_data_count(module))

AddCustomSection ==
    \E point \in CustomPoints, item \in CustomItems :
        Call(add_custom_section(module, point, item))

SetCustomSections ==
    \E point \in CustomPoints, v \in SectionValues :
        Call(set_custom_sections(module, point, v))

\* ModuleBuilder::build
Build ==
    /\ pc = "building"
    /\ pc' = "built"
    /\ UNCHANGED <<module, calls, binary, layout, parsed, value>>

\* emit_binary(&module, &mut buffer) into an empty Vec<u8>; value is the
\* usize it returns
EmitBinary ==
    /\ pc = "built"
    /\ pc' = "emitted"
    /\ binary' = emit_binary(module)
    /\ \E parts \in {emit_module_parts(module)} :
          /\ layout' = SelectSeq(parts, LAMBDA part : part # <<>>)
          /\ value' = emit_module_bytes(module, parts)
    /\ UNCHANGED <<module, calls, parsed>>

\* parse_binary(buffer.as_slice())
ParseBinary ==
    /\ pc = "emitted"
    /\ pc' = "parsed"
    /\ parsed' = parse_binary(binary)
    /\ UNCHANGED <<module, calls, binary, layout, value>>

Next ==
    \/ AddFunctionType
    \/ AddFunction
    \/ AddTable
    \/ AddMemory
    \/ AddGlobal
    \/ AddElement
    \/ AddData
    \/ AddImport
    \/ AddExport
    \/ SetFunctionTypes
    \/ SetFunctions
    \/ SetTables
    \/ SetMemories
    \/ SetGlobals
    \/ SetElements
    \/ SetData
    \/ SetImports
    \/ SetExports
    \/ SetStart
    \/ SetDataCount
    \/ IncludeDataCount
    \/ AddCustomSection
    \/ SetCustomSections
    \/ Build
    \/ EmitBinary
    \/ ParseBinary

Spec == Init /\ [][Next]_vars

(***************************************************************************)
(* SpecLeb: encode_signed of an i32 value, then parse_signed::<i32>        *)
(***************************************************************************)
\* i32::MIN and i32::MAX
I32Min == -Pow2(30) - Pow2(30)

I32Max == (Pow2(30) - 1) + Pow2(30)

\* the values within one of a power of two, of either sign
NearPowers ==
    { sign * Pow2(k) + d : sign \in {-1, 1}, k \in 1..30, d \in {-1, 0, 1} }

LebInputs == (-SmallRange..SmallRange) \cup NearPowers \cup {I32Min, I32Max}

InitLeb ==
    /\ pc = "start"
    /\ value \in LebInputs
    /\ module = Module_empty
    /\ calls = 0
    /\ binary = <<>>
    /\ layout = <<>>
    /\ parsed = NoResult

\* encode_signed(value, &mut buffer): returns with the bytes written, or
\* never returns
EncodeSigned ==
    /\ pc = "start"
    /\ pc' = IF encode_signed(value).done THEN "encoded" ELSE "diverged"
    /\ binary' = encode_signed(value).bytes
    /\ UNCHANGED <<module, calls, layout, parsed, value>>

\* parse_signed::<i32>(buffer.as_slice())
ParseSigned ==
    /\ pc = "encoded"
    /\ pc' = "decoded"
    /\ parsed' = parse_signed(binary, 32)
    /\ UNCHANGED <<module, calls, binary, layout, value>>

NextLeb ==
    \/ EncodeSigned
    \/ ParseSigned

SpecLeb == InitLeb /\ [][NextLeb]_vars

(***************************************************************************)
(* SpecUnsigned: encode_unsigned of a u32 value, then parse_unsigned::<u32> *)
(* or parse_u32 of the bytes; and parse_unsigned::<u32> of a chain of six  *)
(* bytes.  The value is held as a wide integer.                            *)
(***************************************************************************)
\* the low limbs next to the group boundaries
LowLimbs ==
    { Pow2(k) + d : k \in {0, GROUP_BITS, 2 * GROUP_BITS, 3 * GROUP_BITS}, d \in {-1, 0, 1} }
        \cup {Pow2(LimbBits) - 1}

\* u32 values: every value of the high limb with the low limbs above, from
\* 0 to u32::MAX
U32Inputs == { [hi |-> h, lo |-> l] : h \in 0..(Pow2(32 - LimbBits) - 1), l \in LowLimbs }

\* the payloads of the bytes of a chain
ChainPayloads == {0, 1, RADIX - 1}

\* five bytes with the continuation bit set, then one without
SixByteChains ==
    { <<a + RADIX, b + RADIX, c + RADIX, d + RADIX, e + RADIX, f>> :
        a \in ChainPayloads, b \in ChainPayloads, c \in ChainPayloads,
        d \in ChainPayloads, e \in ChainPayloads, f \in ChainPayloads }

\* the payloads of the last byte of a five-byte chain: the bits 28 to 34
LastPayloads == {1, 15, 16, 17, RADIX - 1}

\* four bytes with the continuation bit set, then one without
FiveByteChains ==
    { <<a + RADIX, b + RADIX, c + RADIX, d + RADIX, e>> :
        a \in ChainPayloads, b \in ChainPayloads, c \in ChainPayloads,
        d \in ChainPayloads, e \in LastPayloads }

InitUnsigned ==
    /\ \/ pc = "start" /\ value \in U32Inputs /\ binary = <<>>
       \/ pc = "chain" /\ value = [hi |-> 0, lo |-> 0] /\ binary \in SixByteChains
       \/ pc = "five" /\ value = [hi |-> 0, lo |-> 0] /\ binary \in FiveByteChains
    /\ module = Module_empty
    /\ calls = 0
    /\ layout = <<>>
    /\ parsed = NoResult

\* encode_unsigned(value, &mut buffer)
EncodeUnsigned ==
    /\ pc = "start"
    /\ pc' = "encoded"
    /\ binary' = EncodeUnsignedLoop(value)
    /\ UNCHANGED <<module, calls, layout, parsed, value>>

\* leb128::parse_unsigned::<u32>(buffer.as_slice())
ParseUnsigned ==
    /\ pc \in {"encoded", "chain"}
    /\ pc' = IF pc = "encoded" THEN "decoded" ELSE "chain_decoded"
    /\ parsed' = parse_unsigned_wide(binary, 32)
    /\ UNCHANGED <<module, calls, binary, layout, value>>

\* parser::parse_u32(buffer.as_slice())
ParseU32 ==
    /\ pc \in {"encoded", "five", "chain"}
    /\ pc' = CASE pc = "encoded" -> "decoded_u32"
              [] pc = "five" -> "five_decoded_u32"
              [] pc = "chain" -> "chain_decoded_u32"
    /\ parsed' = parse_u32_wide(binary)
    /\ UNCHANGED <<module, calls, binary, layout, value>>

NextUnsigned ==
    \/ EncodeUnsigned
    \/ ParseUnsigned
    \/ ParseU32

SpecUnsigned == InitUnsigned /\ [][NextUnsigned]_vars

(***************************************************************************)
(* SpecInstruction: emit_expression of a one-instruction expression, then  *)
(* parse_expression of the bytes; and emit_block_type of a block type,     *)
(* then parse_block_type of the bytes                                      *)
(***************************************************************************)
\* constants whose encoding is a byte the instruction parser of the model
\* knows: an opcode it holds (0x00, 0x01, 0x0F, 0x1A), or 0x05 and 0x0B
ConstantInputs == {0, 1, 5, 11, 15, 26}

\* the indices handed to CallIndirect
IndexInputs == {0, 1, 2, 200}

InstructionInputs ==
    { Instr("I32Constant", <<v>>) : v \in ConstantInputs }
        \cup { Instr("I64Constant", <<v>>) : v \in ConstantInputs }
        \cup { Instr("CallIndirect", <<a, b>>) : a \in IndexInputs, b \in IndexInputs }
        \cup { Instr("Call", <<a>>) : a \in IndexInputs }
        \cup { Instr("Nop", <<>>), Instr("Drop", <<>>) }

\* the type indices of block types: the one-byte and two-byte values, and
\* the largest values of the high limb up to u32::MAX
BlockIndexInputs ==
    { Wide(i) : i \in 0..(2 * RADIX) }
        \cup { [hi |-> h, lo |-> l] : h \in {1, 7, 8, Pow2(32 - LimbBits) - 1},
                                    l \in {0, Pow2(LimbBits) - 1} }

BlockTypeInputs ==
    {BlockType_None}
        \cup { BlockType_ValueType(kind) : kind \in NumberTypes \cup ReferenceTypes }
        \cup { BlockType_Index(index) : index \in BlockIndexInputs }

\* the arms of an if without an if in them
ArmInputs == { <<>>, <<Instr("Nop", <<>>)>>, <<Instr("Nop", <<>>), Instr("Drop", <<>>)>> }

\* the ifs over the given block types and first arms, without a second arm
\* and with each of the given second arms
Ifs(kinds, positives, negatives) ==
    { Instr("If", <<kind, positive, None>>) : kind \in kinds, positive \in positives }
        \cup { Instr("If", <<kind, positive, Some(negative)>>) :
                kind \in kinds, positive \in positives, negative \in negatives }

InnerIfs == Ifs({BlockType_None, BlockType_ValueType("I32")}, ArmInputs, ArmInputs)

\* the arms of the outer if: without an if, and with an if as the last
\* instruction
NestedArmInputs ==
    ArmInputs \cup { <<inner>> : inner \in InnerIfs }
        \cup { <<Instr("Nop", <<>>), inner>> : inner \in InnerIfs }

IfInputs ==
    Ifs({BlockType_None, BlockType_ValueType("I32"), BlockType_Index(Wide(0))},
        NestedArmInputs, NestedArmInputs)

InitInstruction ==
    /\ \/ pc = "instruction" /\ value \in InstructionInputs \cup IfInputs
       \/ pc = "block_type" /\ value \in BlockTypeInputs
    /\ module = Module_empty
    /\ calls = 0
    /\ binary = <<>>
    /\ layout = <<>>
    /\ parsed = NoResult

\* emit_expression(&Expression::new(vec![instruction]), &mut buffer)
EmitExpression ==
    /\ pc = "instruction"
    /\ pc' = "expression_emitted"
    /\ binary' = emit_expression(<<value>>)
    /\ UNCHANGED <<module, calls, layout, parsed, value>>

\* parse_expression(buffer.as_slice())
ParseExpression ==
    /\ pc = "expression_emitted"
    /\ pc' = "expression_parsed"
    /\ parsed' = parse_expression(binary)
    /\ UNCHANGED <<module, calls, binary, layout, value>>

\* emit_block_type(&kind, &mut buffer)
EmitBlockType ==
    /\ pc = "block_type"
    /\ pc' = "block_type_emitted"
    /\ binary' = emit_block_type(value)
    /\ UNCHANGED <<module, calls, layout, parsed, value>>

\* parse_block_type(buffer.as_slice())
ParseBlockType ==
    /\ pc = "block_type_emitted"
    /\ pc' = "block_type_parsed"
    /\ parsed' = parse_block_type(binary)
    /\ UNCHANGED <<module, calls, binary, layout, value>>

NextInstruction ==
    \/ EmitExpression
    \/ ParseExpression
    \/ EmitBlockType
    \/ ParseBlockType

SpecInstruction == InitInstruction /\ [][NextInstruction]_vars

(***************************************************************************)
(* SpecElement: emit_element of an element segment, then parse_element of  *)
(* the bytes                                                               *)
(***************************************************************************)
\* offsets of active segments
OffsetInputs == { <<Instr("GlobalGet", <<0>>)>>, <<Nop>> }

\* initializers: lists of single ref.func expressions (the empty list is
\* one), and lists holding another expression
InitializerInputs ==
    { <<>>,
      to_initializers(<<0>>),
      to_initializers(<<1, 2>>),
      << <<Instr("GlobalGet", <<0>>)>> >>,
      << <<Instr("RefFunc", <<0>>)>>, <<Instr("GlobalGet", <<1>>)>> >>,
      << <<Instr("RefFunc", <<0>>), Instr("Drop", <<>>)>> >> }

ElementInputs ==
    { Element(kind, "Passive", 0, <<>>, initializers) :
        kind \in ReferenceTypes, initializers \in InitializerInputs }
        \cup { Element(kind, "Declarative", 0, <<>>, initializers) :
                kind \in ReferenceTypes, initializers \in InitializerInputs }
        \cup { Element(kind, "Active", table, offset, initializers) :
                kind \in ReferenceTypes, table \in {0, 1}, offset \in OffsetInputs,
                initializers \in InitializerInputs }

InitElement ==
    /\ pc = "element"
    /\ value \in ElementInputs
    /\ module = Module_empty
    /\ calls = 0
    /\ binary = <<>>
    /\ layout = <<>>
    /\ parsed = NoResult

\* emit_element(&element, &mut buffer), reached as the emitter of an item
EmitElement ==
    /\ pc = "element"
    /\ pc' = "element_emitted"
    /\ binary' = EmitItem("element", value)
    /\ UNCHANGED <<module, calls, layout, parsed, value>>

\* parse_element(buffer.as_slice()), reached as the parser of an item
ParseElement ==
    /\ pc = "element_emitted"
    /\ pc' = "element_parsed"
    /\ parsed' = ParseItem("element", binary)
    /\ UNCHANGED <<module, calls, binary, layout, value>>

NextElement ==
    \/ EmitElement
    \/ ParseElement

SpecElement == InitElement /\ [][NextElement]_vars

(***************************************************************************)
(* SpecOpcode: the opcodes of the arms of emit_numeric_instruction,        *)
(* emit_reference_instruction, emit_parametric_instruction,                *)
(* emit_variable_instruction, emit_table_instruction,                      *)
(* emit_memory_instruction and emit_control_instruction                    *)
(* (src/emitter/instruction.rs).  A variant is named by the pattern of     *)
(* its arm, with the type and signedness tags of the pattern.              *)
(***************************************************************************)
InstructionVariants ==
    { "Numeric::I32Constant(value)",
      "Numeric::I64Constant(value)",
      "Numeric::F32Constant(value)",
      "Numeric::F64Constant(value)",
      "Numeric::EqualToZero(I32)",
      "Numeric::Equal(I32)",
      "Numeric::NotEqual(I32)",
      "Numeric::LessThanInteger(I32, Signed)",
      "Numeric::LessThanInteger(I32, Unsigned)",
      "Numeric::GreaterThanInteger(I32, Signed)",
      "Numeric::GreaterThanInteger(I32, Unsigned)",
      "Numeric::LessThanOrEqualToInteger(I32, Signed)",
      "Numeric::LessThanOrEqualToInteger(I32, Unsigned)",
      "Numeric::GreaterThanOrEqualToInteger(I32, Signed)",
      "Numeric::GreaterThanOrEqualToInteger(I32, Unsigned)",
      "Numeric::EqualToZero(I64)",
      "Numeric::Equal(I64)",
      "Numeric::NotEqual(I64)",
      "Numeric::LessThanInteger(I64, Signed)",
      "Numeric::LessThanInteger(I64, Unsigned)",
      "Numeric::GreaterThanInteger(I64, Signed)",
      "Numeric::GreaterThanInteger(I64, Unsigned)",
      "Numeric::LessThanOrEqualToInteger(I64, Signed)",
      "Numeric::LessThanOrEqualToInteger(I64, Unsigned)",
      "Numeric::GreaterThanOrEqualToInteger(I64, Signed)",
      "Numeric::GreaterThanOrEqualToInteger(I64, Unsigned)",
      "Numeric::Equal(F32)",
      "Numeric::NotEqual(F32)",
      "Numeric::LessThanFloat(F32)",
      "Numeric::GreaterThanFloat(F32)",
      "Numeric::LessThanOrEqualToFloat(F32)",
      "Numeric::GreaterThanOrEqualToFloat(F32)",
      "Numeric::Equal(F64)",
      "Numeric::NotEqual(F64)",
      "Numeric::LessThanFloat(F64)",
      "Numeric::GreaterThanFloat(F64)",
      "Numeric::LessThanOrEqualToFloat(F64)",
      "Numeric::GreaterThanOrEqualToFloat(F64)",
      "Numeric::CountLeadingZeros(I32)",
      "Numeric::CountTrailingZeros(I32)",
      "Numeric::CountOnes(I32)",
      "Numeric::Add(I32)",
      "Numeric::Subtract(I32)",
      "Numeric::Multiply(I32)",
      "Numeric::DivideInteger(I32, Signed)",
      "Numeric::DivideInteger(I32, Unsigned)",
      "Numeric::Remainder(I32, Signed)",
      "Numeric::Remainder(I32, Unsigned)",
      "Numeric::And(I32)",
      "Numeric::Or(I32)",
      "Numeric::Xor(I32)",
      "Numeric::ShiftLeft(I32)",
      "Numeric::ShiftRight(I32, Signed)",
      "Numeric::ShiftRight(I32, Unsigned)",
      "Numeric::RotateLeft(I32)",
      "Numeric::RotateRight(I32)",
      "Numeric::CountLeadingZeros(I64)",
      "Numeric::CountTrailingZeros(I64)",
      "Numeric::CountOnes(I64)",
      "Numeric::Add(I64)",
      "Numeric::Subtract(I64)",
      "Numeric::Multiply(I64)",
      "Numeric::DivideInteger(I64, Signed)",
      "Numeric::DivideInteger(I64, Unsigned)",
      "Numeric::Remainder(I64, Signed)",
      "Numeric::Remainder(I64, Unsigned)",
      "Numeric::And(I64)",
      "Numeric::Or(I64)",
      "Numeric::Xor(I64)",
      "Numeric::ShiftLeft(I64)",
      "Numeric::ShiftRight(I64, Signed)",
      "Numeric::ShiftRight(I64, Unsigned)",
      "Numeric::RotateLeft(I64)",
      "Numeric::RotateRight(I64)",
      "Numeric::AbsoluteValue(F32)",
      "Numeric::Negate(F32)",
      "Numeric::Ceiling(F32)",
      "Numeric::Floor(F32)",
      "Numeric::Truncate(F32)",
      "Numeric::Nearest(F32)",
      "Numeric::SquareRoot(F32)",
      "Numeric::Add(F32)",
      "Numeric::Subtract(F32)",
      "Numeric::Multiply(F32)",
      "Numeric::DivideFloat(F32)",
      "Numeric::Minimum(F32)",
      "Numeric::Maximum(F32)",
      "Numeric::CopySign(F32)",
      "Numeric::AbsoluteValue(F64)",
      "Numeric::Negate(F64)",
      "Numeric::Ceiling(F64)",
      "Numeric::Floor(F64)",
      "Numeric::Truncate(F64)",
      "Numeric::Nearest(F64)",
      "Numeric::SquareRoot(F64)",
      "Numeric::Add(F64)",
      "Numeric::Subtract(F64)",
      "Numeric::Multiply(F64)",
      "Numeric::DivideFloat(F64)",
      "Numeric::Minimum(F64)",
      "Numeric::Maximum(F64)",
      "Numeric::CopySign(F64)",
      "Numeric::Wrap",
      "Numeric::ConvertAndTruncate(I32, F32, Signed)",
      "Numeric::ConvertAndTruncate(I32, F32, Unsigned)",
      "Numeric::ConvertAndTruncate(I32, F64, Signed)",
      "Numeric::ConvertAndTruncate(I32, F64, Unsigned)",
      "Numeric::ExtendWithSignExtension(Signed)",
      "Numeric::ExtendWithSignExtension(Unsigned)",
      "Numeric::ConvertAndTruncate(I64, F32, Signed)",
      "Numeric::ConvertAndTruncate(I64, F32, Unsigned)",
      "Numeric::ConvertAndTruncate(I64, F64, Signed)",
      "Numeric::ConvertAndTruncate(I64, F64, Unsigned)",
      "Numeric::Convert(F32, I32, Signed)",
      "Numeric::Convert(F32, I32, Unsigned)",
      "Numeric::Convert(F32, I64, Signed)",
      "Numeric::Convert(F32, I64, Unsigned)",
      "Numeric::Demote",
      "Numeric::Convert(F64, I32, Signed)",
      "Numeric::Convert(F64, I32, Unsigned)",
      "Numeric::Convert(F64, I64, Signed)",
      "Numeric::Convert(F64, I64, Unsigned)",
      "Numeric::Promote",
      "Numeric::ReinterpretFloat(I32)",
      "Numeric::ReinterpretFloat(I64)",
      "Numeric::ReinterpretInteger(F32)",
      "Numeric::ReinterpretInteger(F64)",
      "Numeric::ExtendSigned8(I32)",
      "Numeric::ExtendSigned16(I32)",
      "Numeric::ExtendSigned8(I64)",
      "Numeric::ExtendSigned16(I64)",
      "Numeric::ExtendSigned32",
      "Numeric::ConvertAndTruncateWithSaturation(I32, F32, Signed)",
      "Numeric::ConvertAndTruncateWithSaturation(I32, F32, Unsigned)",
      "Numeric::ConvertAndTruncateWithSaturation(I32, F64, Signed)",
      "Numeric::ConvertAndTruncateWithSaturation(I32, F64, Unsigned)",
      "Numeric::ConvertAndTruncateWithSaturation(I64, F32, Signed)",
      "Numeric::ConvertAndTruncateWithSaturation(I64, F32, Unsigned)",
      "Numeric::ConvertAndTruncateWithSaturation(I64, F64, Signed)",
      "Numeric::ConvertAndTruncateWithSaturation(I64, F64, Unsigned)",
      "Reference::Null(kind)",
      "Reference::IsNull",
      "Reference::Function(index)",
      "Parametric::Drop",
      "Parametric::Select(Some(types))",
      "Parametric::Select(None)",
      "Variable::LocalGet(index)",
      "Variable::LocalSet(index)",
      "Variable::LocalTee(index)",
      "Variable::GlobalGet(index)",
      "Variable::GlobalSet(index)",
      "Table::Get(index)",
      "Table::Set(index)",
      "Table::Init(element, table)",
      "Table::ElementDrop(index)",
      "Table::Copy(table_a, table_b)",
      "Table::Grow(index)",
      "Table::Size(index)",
      "Table::Fill(index)",
      "Memory::Load(I32, memory_argument)",
      "Memory::Load(I64, memory_argument)",
      "Memory::Load(F32, memory_argument)",
      "Memory::Load(F64, memory_argument)",
      "Memory::Load8(I32, Signed, memory_argument)",
      "Memory::Load8(I32, Unsigned, memory_argument)",
      "Memory::Load16(I32, Signed, memory_argument)",
      "Memory::Load16(I32, Unsigned, memory_argument)",
      "Memory::Load8(I64, Signed, memory_argument)",
      "Memory::Load8(I64, Unsigned, memory_argument)",
      "Memory::Load16(I64, Signed, memory_argument)",
      "Memory::Load16(I64, Unsigned, memory_argument)",
      "Memory::Load32(Signed, memory_argument)",
      "Memory::Load32(Unsigned, memory_argument)",
      "Memory::Store(I32, memory_argument)",
      "Memory::Store(I64, memory_argument)",
      "Memory::Store(F32, memory_argument)",
      "Memory::Store(F64, memory_argument)",
      "Memory::Store8(I32, memory_argument)",
      "Memory::Store16(I32, memory_argument)",
      "Memory::Store8(I64, memory_argument)",
      "Memory::Store16(I64, memory_argument)",
      "Memory::Store32(memory_argument)",
      "Memory::Size",
      "Memory::Grow",
      "Memory::Init(index)",
      "Memory::DataDrop(index)",
      "Memory::Copy",
      "Memory::Fill",
      "Control::Unreachable",
      "Control::Nop",
      "Control::Block(kind, expression)",
      "Control::Loop(kind, expression)",
      "Control::If(kind, positive, negative)",
      "Control::Branch(index)",
      "Control::BranchIf(index)",
      "Control::BranchTable(indices, index)",
      "Control::Return",
      "Control::Call(index)",
      "Control::CallIndirect(table, kind)" }

\* the opcode byte an arm of the emitters writes first, with the sub-opcode
\* it writes after the prefix 0xFC
OpcodeTable(variant) ==
    CASE variant = "Numeric::I32Constant(value)" -> <<65>>
      [] variant = "Numeric::I64Constant(value)" -> <<66>>
      [] variant = "Numeric::F32Constant(value)" -> <<67>>
      [] variant = "Numeric::F64Constant(value)" -> <<68>>
      [] variant = "Numeric::EqualToZero(I32)" -> <<69>>
      [] variant = "Numeric::Equal(I32)" -> <<70>>
      [] variant = "Numeric::NotEqual(I32)" -> <<71>>
      [] variant = "Numeric::LessThanInteger(I32, Signed)" -> <<72>>
      [] variant = "Numeric::LessThanInteger(I32, Unsigned)" -> <<73>>
      [] variant = "Numeric::GreaterThanInteger(I32, Signed)" -> <<74>>
      [] variant = "Numeric::GreaterThanInteger(I32, Unsigned)" -> <<75>>
      [] variant = "Numeric::LessThanOrEqualToInteger(I32, Signed)" -> <<76>>
      [] variant = "Numeric::LessThanOrEqualToInteger(I32, Unsigned)" -> <<77>>
      [] variant = "Numeric::GreaterThanOrEqualToInteger(I32, Signed)" -> <<78>>
      [] variant = "Numeric::GreaterThanOrEqualToInteger(I32, Unsigned)" -> <<79>>
      [] variant = "Numeric::EqualToZero(I64)" -> <<80>>
      [] variant = "Numeric::Equal(I64)" -> <<81>>
      [] variant = "Numeric::NotEqual(I64)" -> <<82>>
      [] variant = "Numeric::LessThanInteger(I64, Signed)" -> <<83>>
      [] variant = "Numeric::LessThanInteger(I64, Unsigned)" -> <<84>>
      [] variant = "Numeric::GreaterThanInteger(I64, Signed)" -> <<85>>
      [] variant = "Numeric::GreaterThanInteger(I64, Unsigned)" -> <<86>>
      [] variant = "Numeric::LessThanOrEqualToInteger(I64, Signed)" -> <<87>>
      [] variant = "Numeric::LessThanOrEqualToInteger(I64, Unsigned)" -> <<88>>
      [] variant = "Numeric::GreaterThanOrEqualToInteger(I64, Signed)" -> <<89>>
      [] variant = "Numeric::GreaterThanOrEqualToInteger(I64, Unsigned)" -> <<90>>
      [] variant = "Numeric::Equal(F32)" -> <<91>>
      [] variant = "Numeric::NotEqual(F32)" -> <<92>>
      [] variant = "Numeric::LessThanFloat(F32)" -> <<93>>
      [] variant = "Numeric::GreaterThanFloat(F32)" -> <<94>>
      [] variant = "Numeric::LessThanOrEqualToFloat(F32)" -> <<95>>
      [] variant = "Numeric::GreaterThanOrEqualToFloat(F32)" -> <<96>>
      [] variant = "Numeric::Equal(F64)" -> <<97>>
      [] variant = "Numeric::NotEqual(F64)" -> <<98>>
      [] variant = "Numeric::LessThanFloat(F64)" -> <<99>>
      [] variant = "Numeric::GreaterThanFloat(F64)" -> <<100>>
      [] variant = "Numeric::LessThanOrEqualToFloat(F64)" -> <<101>>
      [] variant = "Numeric::GreaterThanOrEqualToFloat(F64)" -> <<102>>
      [] variant = "Numeric::CountLeadingZeros(I32)" -> <<103>>
      [] variant = "Numeric::CountTrailingZeros(I32)" -> <<104>>
      [] variant = "Numeric::CountOnes(I32)" -> <<105>>
      [] variant = "Numeric::Add(I32)" -> <<106>>
      [] variant = "Numeric::Subtract(I32)" -> <<107>>
      [] variant = "Numeric::Multiply(I32)" -> <<108>>
      [] variant = "Numeric::DivideInteger(I32, Signed)" -> <<109>>
      [] variant = "Numeric::DivideInteger(I32, Unsigned)" -> <<110>>
      [] variant = "Numeric::Remainder(I32, Signed)" -> <<111>>
      [] variant = "Numeric::Remainder(I32, Unsigned)" -> <<112>>
      [] variant = "Numeric::And(I32)" -> <<113>>
      [] variant = "Numeric::Or(I32)" -> <<114>>
      [] variant = "Numeric::Xor(I32)" -> <<115>>
      [] variant = "Numeric::ShiftLeft(I32)" -> <<116>>
      [] variant = "Numeric::ShiftRight(I32, Signed)" -> <<117>>
      [] variant = "Numeric::ShiftRight(I32, Unsigned)" -> <<118>>
      [] variant = "Numeric::RotateLeft(I32)" -> <<119>>
      [] variant = "Numeric::RotateRight(I32)" -> <<120>>
      [] variant = "Numeric::CountLeadingZeros(I64)" -> <<121>>
      [] variant = "Numeric::CountTrailingZeros(I64)" -> <<122>>
      [] variant = "Numeric::CountOnes(I64)" -> <<123>>
      [] variant = "Numeric::Add(I64)" -> <<124>>
      [] variant = "Numeric::Subtract(I64)" -> <<125>>
      [] variant = "Numeric::Multiply(I64)" -> <<126>>
      [] variant = "Numeric::DivideInteger(I64, Signed)" -> <<127>>
      [] variant = "Numeric::DivideInteger(I64, Unsigned)" -> <<128>>
      [] variant = "Numeric::Remainder(I64, Signed)" -> <<129>>
      [] variant = "Numeric::Remainder(I64, Unsigned)" -> <<130>>
      [] variant = "Numeric::And(I64)" -> <<131>>
      [] variant = "Numeric::Or(I64)" -> <<132>>
      [] variant = "Numeric::Xor(I64)" -> <<133>>
      [] variant = "Numeric::ShiftLeft(I64)" -> <<134>>
      [] variant = "Numeric::ShiftRight(I64, Signed)" -> <<135>>
      [] variant = "Numeric::ShiftRight(I64, Unsigned)" -> <<136>>
      [] variant = "Numeric::RotateLeft(I64)" -> <<137>>
      [] variant = "Numeric::RotateRight(I64)" -> <<138>>
      [] variant = "Numeric::AbsoluteValue(F32)" -> <<139>>
      [] variant = "Numeric::Negate(F32)" -> <<140>>
      [] variant = "Numeric::Ceiling(F32)" -> <<141>>
      [] variant = "Numeric::Floor(F32)" -> <<142>>
      [] variant = "Numeric::Truncate(F32)" -> <<143>>
      [] variant = "Numeric::Nearest(F32)" -> <<144>>
      [] variant = "Numeric::SquareRoot(F32)" -> <<145>>
      [] variant = "Numeric::Add(F32)" -> <<146>>
      [] variant = "Numeric::Subtract(F32)" -> <<147>>
      [] variant = "Numeric::Multiply(F32)" -> <<148>>
      [] variant = "Numeric::DivideFloat(F32)" -> <<149>>
      [] variant = "Numeric::Minimum(F32)" -> <<150>>
      [] variant = "Numeric::Maximum(F32)" -> <<151>>
      [] variant = "Numeric::CopySign(F32)" -> <<152>>
      [] variant = "Numeric::AbsoluteValue(F64)" -> <<153>>
      [] variant = "Numeric::Negate(F64)" -> <<154>>
      [] variant = "Numeric::Ceiling(F64)" -> <<155>>
      [] variant = "Numeric::Floor(F64)" -> <<156>>
      [] variant = "Numeric::Truncate(F64)" -> <<157>>
      [] variant = "Numeric::Nearest(F64)" -> <<158>>
      [] variant = "Numeric::SquareRoot(F64)" -> <<159>>
      [] variant = "Numeric::Add(F64)" -> <<160>>
      [] variant = "Numeric::Subtract(F64)" -> <<161>>
      [] variant = "Numeric::Multiply(F64)" -> <<162>>
      [] variant = "Numeric::DivideFloat(F64)" -> <<163>>
      [] variant = "Numeric::Minimum(F64)" -> <<164>>
      [] variant = "Numeric::Maximum(F64)" -> <<165>>
      [] variant = "Numeric::CopySign(F64)" -> <<166>>
      [] variant = "Numeric::Wrap" -> <<167>>
      [] variant = "Numeric::ConvertAndTruncate(I32, F32, Signed)" -> <<168>>
      [] variant = "Numeric::ConvertAndTruncate(I32, F32, Unsigned)" -> <<169>>
      [] variant = "Numeric::ConvertAndTruncate(I32, F64, Signed)" -> <<170>>
      [] variant = "Numeric::ConvertAndTruncate(I32, F64, Unsigned)" -> <<171>>
      [] variant = "Numeric::ExtendWithSignExtension(Signed)" -> <<172>>
      [] variant = "Numeric::ExtendWithSignExtension(Unsigned)" -> <<173>>
      [] variant = "Numeric::ConvertAndTruncate(I64, F32, Signed)" -> <<174>>
      [] variant = "Numeric::ConvertAndTruncate(I64, F32, Unsigned)" -> <<175>>
      [] variant = "Numeric::ConvertAndTruncate(I64, F64, Signed)" -> <<176>>
      [] variant = "Numeric::ConvertAndTruncate(I64, F64, Unsigned)" -> <<177>>
      [] variant = "Numeric::Convert(F32, I32, Signed)" -> <<178>>
      [] variant = "Numeric::Convert(F32, I32, Unsigned)" -> <<179>>
      [] variant = "Numeric::Convert(F32, I64, Signed)" -> <<180>>
      [] variant = "Numeric::Convert(F32, I64, Unsigned)" -> <<181>>
      [] variant = "Numeric::Demote" -> <<182>>
      [] variant = "Numeric::Convert(F64, I32, Signed)" -> <<183>>
      [] variant = "Numeric::Convert(F64, I32, Unsigned)" -> <<184>>
      [] variant = "Numeric::Convert(F64, I64, Signed)" -> <<185>>
      [] variant = "Numeric::Convert(F64, I64, Unsigned)" -> <<186>>
      [] variant = "Numeric::Promote" -> <<187>>
      [] variant = "Numeric::ReinterpretFloat(I32)" -> <<188>>
      [] variant = "Numeric::ReinterpretFloat(I64)" -> <<189>>
      [] variant = "Numeric::ReinterpretInteger(F32)" -> <<190>>
      [] variant = "Numeric::ReinterpretInteger(F64)" -> <<191>>
      [] variant = "Numeric::ExtendSigned8(I32)" -> <<192>>
      [] variant = "Numeric::ExtendSigned16(I32)" -> <<193>>
      [] variant = "Numeric::ExtendSigned8(I64)" -> <<194>>
      [] variant = "Numeric::ExtendSigned16(I64)" -> <<195>>
      [] variant = "Numeric::ExtendSigned32" -> <<196>>
      [] variant = "Numeric::ConvertAndTruncateWithSaturation(I32, F32, Signed)" -> <<252, 0>>
      [] variant = "Numeric::ConvertAndTruncateWithSaturation(I32, F32, Unsigned)" -> <<252, 1>>
      [] variant = "Numeric::ConvertAndTruncateWithSaturation(I32, F64, Signed)" -> <<252, 2>>
      [] variant = "Numeric::ConvertAndTruncateWithSaturation(I32, F64, Unsigned)" -> <<252, 3>>
      [] variant = "Numeric::ConvertAndTruncateWithSaturation(I64, F32, Signed)" -> <<252, 4>>
      [] variant = "Numeric::ConvertAndTruncateWithSaturation(I64, F32, Unsigned)" -> <<252, 5>>
      [] variant = "Numeric::ConvertAndTruncateWithSaturation(I64, F64, Signed)" -> <<252, 6>>
      [] variant = "Numeric::ConvertAndTruncateWithSaturation(I64, F64, Unsigned)" -> <<252, 7>>
      [] variant = "Reference::Null(kind)" -> <<208>>
      [] variant = "Reference::IsNull" -> <<209>>
      [] variant = "Reference::Function(index)" -> <<210>>
      [] variant = "Parametric::Drop" -> <<26>>
      [] variant = "Parametric::Select(Some(types))" -> <<28>>
      [] variant = "Parametric::Select(None)" -> <<27>>
      [] variant = "Variable::LocalGet(index)" -> <<32>>
      [] variant = "Variable::LocalSet(index)" -> <<33>>
      [] variant = "Variable::LocalTee(index)" -> <<34>>
      [] variant = "Variable::GlobalGet(index)" -> <<35>>
      [] variant = "Variable::GlobalSet(index)" -> <<36>>
      [] variant = "Table::Get(index)" -> <<37>>
      [] variant = "Table::Set(index)" -> <<38>>
      [] variant = "Table::Init(element, table)" -> <<252, 12>>
      [] variant = "Table::ElementDrop(index)" -> <<252, 13>>
      [] variant = "Table::Copy(table_a, table_b)" -> <<252, 14>>
      [] variant = "Table::Grow(index)" -> <<252, 15>>
      [] variant = "Table::Size(index)" -> <<252, 16>>
      [] variant = "Table::Fill(index)" -> <<252, 17>>
      [] variant = "Memory::Load(I32, memory_argument)" -> <<40>>
      [] variant = "Memory::Load(I64, memory_argument)" -> <<41>>
      [] variant = "Memory::Load(F32, memory_argument)" -> <<42>>
      [] variant = "Memory::Load(F64, memory_argument)" -> <<43>>
      [] variant = "Memory::Load8(I32, Signed, memory_argument)" -> <<44>>
      [] variant = "Memory::Load8(I32, Unsigned, memory_argument)" -> <<45>>
      [] variant = "Memory::Load16(I32, Signed, memory_argument)" -> <<46>>
      [] variant = "Memory::Load16(I32, Unsigned, memory_argument)" -> <<47>>
      [] variant = "Memory::Load8(I64, Signed, memory_argument)" -> <<48>>
      [] variant = "Memory::Load8(I64, Unsigned, memory_argument)" -> <<49>>
      [] variant = "Memory::Load16(I64, Signed, memory_argument)" -> <<50>>
      [] variant = "Memory::Load16(I64, Unsigned, memory_argument)" -> <<51>>
      [] variant = "Memory::Load32(Signed, memory_argument)" -> <<52>>
      [] variant = "Memory::Load32(Unsigned, memory_argument)" -> <<53>>
      [] variant = "Memory::Store(I32, memory_argument)" -> <<54>>
      [] variant = "Memory::Store(I64, memory_argument)" -> <<55>>
      [] variant = "Memory::Store(F32, memory_argument)" -> <<56>>
      [] variant = "Memory::Store(F64, memory_argument)" -> <<57>>
      [] variant = "Memory::Store8(I32, memory_argument)" -> <<58>>
      [] variant = "Memory::Store16(I32, memory_argument)" -> <<59>>
      [] variant = "Memory::Store8(I64, memory_argument)" -> <<60>>
      [] variant = "Memory::Store16(I64, memory_argument)" -> <<61>>
      [] variant = "Memory::Store32(memory_argument)" -> <<62>>
      [] variant = "Memory::Size" -> <<63>>
      [] variant = "Memory::Grow" -> <<64>>
      [] variant = "Memory::Init(index)" -> <<252, 8>>
      [] variant = "Memory::DataDrop(index)" -> <<252, 9>>
      [] variant = "Memory::Copy" -> <<252, 10>>
      [] variant = "Memory::Fill" -> <<252, 11>>
      [] variant = "Control::Unreachable" -> <<0>>
      [] variant = "Control::Nop" -> <<1>>
      [] variant = "Control::Block(kind, expression)" -> <<2>>
      [] variant = "Control::Loop(kind, expression)" -> <<3>>
      [] variant = "Control::If(kind, positive, negative)" -> <<4>>
      [] variant = "Control::Branch(index)" -> <<12>>
      [] variant = "Control::BranchIf(index)" -> <<13>>
      [] variant = "Control::BranchTable(indices, index)" -> <<14>>
      [] variant = "Control::Return" -> <<15>>
      [] variant = "Control::Call(index)" -> <<16>>
      [] variant = "Control::CallIndirect(table, kind)" -> <<17>>

\* the prefix of the instructions that have a sub-opcode
OPCODE_PREFIX == 252

\* emit_opcode with the unsigned i32 less-than written as the signed one
emit_opcode_signless(variant) ==
    LET arm == IF variant = "Numeric::LessThanInteger(I32, Unsigned)"
               THEN "Numeric::LessThanInteger(I32, Signed)"
               ELSE variant
        code == OpcodeTable(arm)
    IN  IF code[1] = OPCODE_PREFIX THEN emit_byte(code[1]) \o emit_u32(code[2])
        ELSE emit_byte(code[1])

\* what the arm of a variant writes before the immediates: emit_byte of the
\* opcode, and emit_u32 of the sub-opcode after the prefix
emit_opcode(variant) ==
    LET code == OpcodeTable(variant)
    IN  IF code[1] = OPCODE_PREFIX THEN emit_byte(code[1]) \o emit_u32(code[2])
        ELSE emit_byte(code[1])

InitOpcode ==
    /\ pc = "variant"
    /\ value \in InstructionVariants
    /\ module = Module_empty
    /\ calls = 0
    /\ binary = <<>>
    /\ layout = <<>>
    /\ parsed = NoResult

\* emit_instruction of an instruction of the variant, up to its immediates
EmitOpcode ==
    /\ pc = "variant"
    /\ pc' = "opcode_emitted"
    /\ binary' = emit_opcode(value)
    /\ UNCHANGED <<module, calls, layout, parsed, value>>

NextOpcode == EmitOpcode

SpecOpcode == InitOpcode /\ [][NextOpcode]_vars

(***************************************************************************)
(* SpecEquality: two builders handed custom sections, and the == of the    *)
(* modules they build (src/model/module.rs).  module is the first builder's *)
(* module, value the second's.                                             *)
(***************************************************************************)
\* the number of calls on the two builders together
MaxEqualityCalls == 4

\* the insertion points handed to the two builders
EqualityPoints == {SecExport, SecData}

InitEquality ==
    /\ pc = "comparing"
    /\ module = Module_empty
    /\ value = Module_empty
    /\ calls = 0
    /\ binary = <<>>
    /\ layout = <<>>
    /\ parsed = NoResult

\* the last call made: on which of the two builders, at which insertion
\* point, with which argument, and the module the builder held before it
CustomCall(op, builder, point, arg, before) ==
    [op |-> op, builder |-> builder, point |-> point, arg |-> arg, before |-> before]

\* builder.add_custom_section(point, item) on the first builder
AddCustomFirst ==
    /\ pc = "comparing"
    /\ calls < MaxEqualityCalls
    /\ calls' = calls + 1
    /\ \E point \in EqualityPoints, item \in CustomItems :
          /\ module' = add_custom_section(module, point, item)
          /\ layout' = CustomCall("add_custom_section", 1, point, item, module)
    /\ UNCHANGED <<pc, binary, parsed, value>>

\* other_builder.add_custom_section(point, item)
AddCustomSecond ==
    /\ pc = "comparing"
    /\ calls < MaxEqualityCalls
    /\ calls' = calls + 1
    /\ \E point \in EqualityPoints, item \in CustomItems :
          /\ value' = add_custom_section(value, point, item)
          /\ layout' = CustomCall("add_custom_section", 2, point, item, value)
    /\ UNCHANGED <<pc, binary, parsed, module>>

\* builder.set_custom_sections(point, v) on the first builder
SetCustomFirst ==
    /\ pc = "comparing"
    /\ calls < MaxEqualityCalls
    /\ calls' = calls + 1
    /\ \E point \in EqualityPoints, v \in SectionValues :
          /\ module' = set_custom_sections(module, point, v)
          /\ layout' = CustomCall("set_custom_sections", 1, point, v, module)
    /\ UNCHANGED <<pc, binary, parsed, value>>

\* other_builder.set_custom_sections(point, v)
SetCustomSecond ==
    /\ pc = "comparing"
    /\ calls < MaxEqualityCalls
    /\ calls' = calls + 1
    /\ \E point \in EqualityPoints, v \in SectionValues :
          /\ value' = set_custom_sections(value, point, v)
          /\ layout' = CustomCall("set_custom_sections", 2, point, v, value)
    /\ UNCHANGED <<pc, binary, parsed, module>>

NextEquality ==
    \/ AddCustomFirst
    \/ AddCustomSecond
    \/ SetCustomFirst
    \/ SetCustomSecond

SpecEquality == InitEquality /\ [][NextEquality]_vars

(***************************************************************************)
(* SpecLimit: Limit::new, Limit::unbounded and Limit::bounded              *)
(* (src/model/types.rs), and parse_limit of the bytes of a limit.          *)
(***************************************************************************)
Limit_new(min, max) == [min |-> min, max |-> max]

Limit_unbounded(min) == [min |-> min, max |-> None]

Limit_bounded(min, max) == [min |-> min, max |-> Some(max)]

\* the u32 values handed to the constructors and written in the binaries
LimitInputs == {0, 1, 2, 127, 128}

\* the bytes of a limit without and with a maximum
LimitBinaries ==
    { emit_byte(0) \o emit_u32(min) : min \in LimitInputs }
        \cup { emit_byte(1) \o emit_u32(min) \o emit_u32(max) :
                min \in LimitInputs, max \in LimitInputs }

InitLimit ==
    /\ \/ pc = "start" /\ binary = <<>>
       \/ pc = "limit_bytes" /\ binary \in LimitBinaries
    /\ value = Limit_unbounded(0)
    /\ module = Module_empty
    /\ calls = 0
    /\ layout = <<>>
    /\ parsed = NoResult

LimitNew ==
    /\ pc = "start"
    /\ pc' = "limit"
    /\ \E min \in LimitInputs, max \in {None} \cup {Some(m) : m \in LimitInputs} :
          value' = Limit_new(min, max)
    /\ UNCHANGED <<module, calls, binary, layout, parsed>>

LimitUnbounded ==
    /\ pc = "start"
    /\ pc' = "limit"
    /\ \E min \in LimitInputs : value' = Limit_unbounded(min)
    /\ UNCHANGED <<module, calls, binary, layout, parsed>>

LimitBounded ==
    /\ pc = "start"
    /\ pc' = "limit"
    /\ \E min \in LimitInputs, max \in LimitInputs : value' = Limit_bounded(min, max)
    /\ UNCHANGED <<module, calls, binary, layout, parsed>>

\* emit_limit(&limit, &mut buffer)
EmitLimit ==
    /\ pc = "limit"
    /\ pc' = "limit_emitted"
    /\ binary' = emit_limit(value)
    /\ UNCHANGED <<module, calls, layout, parsed, value>>

\* parse_limit(bytes)
ParseLimit ==
    /\ pc \in {"limit_emitted", "limit_bytes"}
    /\ pc' = "limit_parsed"
    /\ parsed' = parse_limit(binary)
    /\ UNCHANGED <<module, calls, binary, layout, value>>

NextLimit ==
    \/ LimitNew
    \/ LimitUnbounded
    \/ LimitBounded
    \/ EmitLimit
    \/ ParseLimit

SpecLimit == InitLimit /\ [][NextLimit]_vars

(***************************************************************************)
(* SpecLocals: the locals of a code entry, as emit_function_code writes    *)
(* them and as any run-length grouping of them, read by parse_locals.      *)
(*   value   the locals (a list of value types)                            *)
(*   layout  the (count, value type) runs of a grouping                    *)
(*   binary  the number of runs, the runs and the body                     *)
(***************************************************************************)
MaxRuns == 3

MaxCount == 3

LocalKinds == {"I32", "F64", "FuncRef"}

LocalRuns ==
    UNION { [1..n -> (0..MaxCount) \X LocalKinds] : n \in 0..MaxRuns }

\* the locals a list of runs stands for
RECURSIVE Flatten(_)
Flatten(runs) ==
    IF runs = <<>> THEN <<>>
    ELSE Repeat(Head(runs)[2], Head(runs)[1]) \o Flatten(Tail(runs))

RECURSIVE EncodeRuns(_)
EncodeRuns(runs) ==
    IF runs = <<>> THEN <<>>
    ELSE emit_u32(Head(runs)[1]) \o emit_value_type(Head(runs)[2])
         \o EncodeRuns(Tail(runs))

InitLocals ==
    /\ \/ /\ pc = "locals"
          /\ value \in UNION { [1..n -> LocalKinds] : n \in 0..MaxRuns }
          /\ layout = <<>>
          /\ binary = <<>>
       \/ /\ pc = "runs"
          /\ layout \in LocalRuns
          /\ value = Flatten(layout)
          /\ binary = emit_usize(Len(layout)) \o EncodeRuns(layout)
                      \o <<EXPRESSION_END>>
    /\ module = Module_empty
    /\ calls = 0
    /\ parsed = NoResult

\* emit_function_code(&function, &mut buffer) for a function with these
\* locals and an empty body
EmitFunctionCode ==
    /\ pc = "locals"
    /\ pc' = "locals_emitted"
    /\ binary' = emit_function_code(Function(0, value, <<>>)).written
    /\ UNCHANGED <<module, calls, layout, parsed, value>>

\* parse_locals(bytes)
ParseLocals ==
    /\ pc \in {"locals_emitted", "runs"}
    /\ pc' = (IF pc = "runs" THEN "runs_parsed" ELSE "locals_parsed")
    /\ parsed' = parse_locals(binary)
    /\ UNCHANGED <<module, calls, binary, layout, value>>

NextLocals ==
    \/ EmitFunctionCode
    \/ ParseLocals

SpecLocals == InitLocals /\ [][NextLocals]_vars

(***************************************************************************)
(* SpecBuilder: the add_* calls of ModuleBuilder with what they return.    *)
(*                                                                         *)
(* The result of an add_* call depends on the lengths of the builder's     *)
(* vectors only, and the lengths that matter are those next to 2^32, so    *)
(* here a Vec is held as its len(), a wide integer (usize is 64 bits), and *)
(* the imports as the number of imports of each kind.  The variable module *)
(* holds the builder and value the calls made so far, each with the        *)
(* builder it was made on and its result.                                  *)
(***************************************************************************)
\* the number of builder calls of a run of SpecBuilder
MaxBuilderCalls == 3

WideZero == [hi |-> 0, lo |-> 0]

WideAdd(a, b) == WideNorm(a.hi + b.hi, a.lo + b.lo)

\* the kinds of ImportDescription
ImportKinds == {"Function", "Table", "Memory", "Global"}

\* ModuleBuilder::new()
ModuleBuilder_new ==
    [function_types |-> None, functions |-> None, tables |-> None,
     memories |-> None, globals |-> None, elements |-> None, data |-> None,
     imports |-> None, exports |-> None]

\* field.get_or_insert_with(Vec::new).len()
VecLen(field) == IF IsSome(field) THEN Unwrap(field) ELSE WideZero

\* imports.iter().filter(|import| matches!(import.description(), kind)).count(),
\* 0 when there are no imports
ImportCount(builder, kind) ==
    IF IsSome(builder.imports) THEN Unwrap(builder.imports)[kind] ELSE WideZero

\* let index = u32::try_from(index)?; field.push(item); Ok(index): the
\* vector is there, and empty if it was absent, when try_from fails
PushIndexed(builder, field, index) ==
    IF FitsUnsigned(index, 32)
    THEN [builder |-> [builder EXCEPT ![field] = Some(WideAdd(VecLen(@), Wide(1)))],
          result |-> Ok(index, <<>>)]
    ELSE [builder |-> [builder EXCEPT ![field] = Some(VecLen(@))],
          result |-> Err("IndexOverflow")]

add_function_type(builder) ==
    PushIndexed(builder, "function_types", VecLen(builder.function_types))

\* add_function with the function imports left out of the index
add_function_unshifted(builder) ==
    PushIndexed(builder, "functions", VecLen(builder.functions))

add_function(builder) ==
    PushIndexed(builder, "functions",
                WideAdd(VecLen(builder.functions), ImportCount(builder, "Function")))

add_table(builder) ==
    PushIndexed(builder, "tables",
                WideAdd(VecLen(builder.tables), ImportCount(builder, "Table")))

add_memory(builder) ==
    PushIndexed(builder, "memories",
                WideAdd(VecLen(builder.memories), ImportCount(builder, "Memory")))

add_global(builder) ==
    PushIndexed(builder, "globals",
                WideAdd(VecLen(builder.globals), ImportCount(builder, "Global")))

add_element(builder) == PushIndexed(builder, "elements", VecLen(builder.elements))

add_data(builder) == PushIndexed(builder, "data", VecLen(builder.data))

\* add_import of an import of the given kind
add_import(builder, kind) ==
    LET imports == IF IsSome(builder.imports) THEN Unwrap(builder.imports)
                   ELSE [k \in ImportKinds |-> WideZero]
        index == imports[kind]
    IN  IF FitsUnsigned(index, 32)
        THEN [builder |-> [builder EXCEPT !.imports =
                              Some([imports EXCEPT ![kind] = WideAdd(@, Wide(1))])],
              result |-> Ok(index, <<>>)]
        ELSE [builder |-> [builder EXCEPT !.imports = Some(imports)],
              result |-> Err("IndexOverflow")]

\* add_export returns nothing and cannot fail
add_export(builder) ==
    [builder |-> [builder EXCEPT !.exports = Some(WideAdd(VecLen(@), Wide(1)))],
     result |-> Ok(WideZero, <<>>)]

\* u32::MAX, the length of the vectors handed to the set_* calls
LargeLen == [hi |-> Pow2(32 - LimbBits) - 1, lo |-> Pow2(LimbBits) - 1]

\* the Option<Vec<_>> fields other than imports
VecFields ==
    {"function_types", "functions", "tables", "memories", "globals", "elements",
     "data", "exports"}

InitBuilder ==
    /\ pc = "calling"
    /\ module = ModuleBuilder_new
    /\ calls = 0
    /\ value = <<>>
    /\ binary = <<>>
    /\ layout = <<>>
    /\ parsed = NoResult

\* a call on the builder: the builder it leaves, and the call with the
\* builder it was made on and its result added to the calls made
BuilderCall(op, kind, out) ==
    /\ pc = "calling"
    /\ calls < MaxBuilderCalls
    /\ calls' = calls + 1
    /\ module' = out.builder
    /\ value' = Append(value, [op |-> op, kind |-> kind, before |-> module,
                               result |-> out.result])
    /\ UNCHANGED <<pc, binary, layout, parsed>>

CallAddFunctionType == BuilderCall("add_function_type", "", add_function_type(module))

CallAddFunction == BuilderCall("add_function", "Function", add_function(module))

CallAddTable == BuilderCall("add_table", "Table", add_table(module))

CallAddMemory == BuilderCall("add_memory", "Memory", add_memory(module))

CallAddGlobal == BuilderCall("add_global", "Global", add_global(module))

CallAddElement == BuilderCall("add_element", "", add_element(module))

CallAddData == BuilderCall("add_data", "", add_data(module))

CallAddImport ==
    \E kind \in ImportKinds : BuilderCall("add_import", kind, add_import(module, kind))

CallAddExport == BuilderCall("add_export", "", add_export(module))

\* set_function_types, ..., set_exports handed Some(vec) of u32::MAX items
CallSetVec ==
    \E field \in VecFields :
        BuilderCall("set", field,
                    [builder |-> [module EXCEPT ![field] = Some(LargeLen)],
                     result |-> Ok(WideZero, <<>>)])

\* set_imports handed Some(vec) of u32::MAX imports of one kind
CallSetImports ==
    \E kind \in ImportKinds :
        BuilderCall("set_imports", kind,
                    [builder |-> [module EXCEPT !.imports =
                        Some([k \in ImportKinds |-> IF k = kind THEN LargeLen ELSE WideZero])],
                     result |-> Ok(WideZero, <<>>)])

NextBuilder ==
    \/ CallAddFunctionType
    \/ CallAddFunction
    \/ CallAddTable
    \/ CallAddMemory
    \/ CallAddGlobal
    \/ CallAddElement
    \/ CallAddData
    \/ CallAddImport
    \/ CallAddExport
    \/ CallSetVec
    \/ CallSetImports

SpecBuilder == InitBuilder /\ [][NextBuilder]_vars

(***************************************************************************)
(* SpecParse: parse_binary of a binary put together from whole sections    *)
(* and other pieces, in any order                                          *)
(***************************************************************************)
CustomA == emit_section(SecCustom, <<1, 97, 1>>)

CustomB == emit_section(SecCustom, <<1, 98>>)

TypeSec == emit_section(SecType, <<1, 96, 0, 0>>)

ImportSec == emit_section(SecImport, <<1, 1, 109, 1, 102, 0, 0>>)

FunctionSec1 == emit_section(SecFunction, <<1, 0>>)

FunctionSec2 == emit_section(SecFunction, <<2, 0, 1>>)

TableSec == emit_section(SecTable, <<1, 112, 0, 1>>)

MemorySec == emit_section(SecMemory, <<1, 0, 1>>)

GlobalSec == emit_section(SecGlobal, <<1, 127, 0, 1, 11>>)

ExportSec == emit_section(SecExport, <<1, 1, 102, 0, 0>>)

StartSec == emit_section(SecStart, <<0>>)

ElementSec == emit_section(SecElement, <<1, 1, 0, 1, 0>>)

DataCountSec1 == emit_section(SecDataCount, <<1>>)

DataCountSec3 == emit_section(SecDataCount, <<3>>)

CodeSec1 == emit_section(SecCode, <<1, 3, 0, 1, 11>>)

CodeSec2 == emit_section(SecCode, <<2, 2, 0, 11, 5, 1, 1, 127, 1, 11>>)

DataSec == emit_section(SecData, <<1, 1, 1, 42>>)

\* complete sections with well-formed content
WellFormedSections ==
    { CustomA, CustomB, TypeSec, ImportSec, FunctionSec1, FunctionSec2, TableSec,
      MemorySec, GlobalSec, ExportSec, StartSec, ElementSec, DataCountSec1,
      DataCountSec3, CodeSec1, CodeSec2, DataSec }

\* a complete type section whose content is no vector of function types
BadContent == emit_section(SecType, <<1, 97>>)

\* a memory section cut off before the end its length announces
Truncated == <<SecMemory, 100, 1>>

\* a byte that is no section id
Junk == <<255>>

MalformedPieces == {BadContent, Truncated, Junk}

InputPieces == WellFormedSections \cup MalformedPieces

\* a preamble of a later binary format version
BadPreamble == PREAMBLE \o <<2, 0, 0, 0>>

InitParse ==
    /\ pc = "input"
    /\ binary \in {PREAMBLE \o VERSION, BadPreamble}
    /\ layout = <<>>
    /\ module = Module_empty
    /\ calls = 0
    /\ parsed = NoResult
    /\ value = 0

\* the input grows by one piece
AppendPiece ==
    /\ pc = "input"
    /\ Len(layout) < MaxSections
    /\ \E piece \in InputPieces :
          /\ binary' = binary \o piece
          /\ layout' = Append(layout, piece)
    /\ UNCHANGED <<pc, module, calls, parsed, value>>

\* parse_binary(input)
ParseInput ==
    /\ pc = "input"
    /\ pc' = "parsed"
    /\ parsed' = parse_binary(binary)
    /\ UNCHANGED <<module, calls, binary, layout, value>>

NextParse ==
    \/ AppendPiece
    \/ ParseInput

SpecParse == InitParse /\ [][NextParse]_vars

(***************************************************************************)
(* What the properties below read off a binary and its sections            *)
(***************************************************************************)
Header == PREAMBLE \o VERSION

Emitted == pc \in {"emitted", "parsed"}

\* the sections of the binary lie one after the other behind the preamble
SectionsTile == binary = Header \o Concat(layout)

SectionId(part) == part[1]

NonCustom(parts) == SelectSeq(parts, LAMBDA part : SectionId(part) # SecCustom)

Customs(parts) == SelectSeq(parts, LAMBDA part : SectionId(part) = SecCustom)

WithId(parts, id) == SelectSeq(parts, LAMBDA part : SectionId(part) = id)

\* the place of a non-custom id in the order Type, Import, Function, Table,
\* Memory, Global, Export, Start, Element, DataCount, Code, Data
Rank(id) == CHOOSE k \in 1..Len(ParseOrder) : ParseOrder[k] = id

\* the non-custom ids are ids of that order, each at most once, in that order
InCanonicalOrder(parts) ==
    LET ids == [i \in 1..Len(NonCustom(parts)) |-> SectionId(NonCustom(parts)[i])]
    IN  /\ \A i \in 1..Len(ids) : \E k \in 1..Len(ParseOrder) : ParseOrder[k] = ids[i]
        /\ \A i, j \in 1..Len(ids) : i < j => Rank(ids[i]) < Rank(ids[j])

\* bytes that start with a u32 LEB128 count of exactly the bytes after it
SizePrefixed(bytes) ==
    /\ parse_unsigned(bytes, 32).ok
    /\ parse_unsigned(bytes, 32).value = Len(parse_unsigned(bytes, 32).rest)

\* the payload of a section: what follows its id and its length
Payload(part) == parse_unsigned(Tail(part), 32).rest

\* the code entries in bytes are those of the functions, one after the other,
\* each behind a size equal to the bytes of its locals and body
RECURSIVE EntriesExact(_, _)
EntriesExact(bytes, functions) ==
    IF functions = <<>> THEN bytes = <<>>
    ELSE LET size == parse_unsigned(bytes, 32)
             code == emit_function_code(Head(functions)).written
         IN  /\ size.ok
             /\ size.value = Len(code)
             /\ Len(size.rest) >= Len(code)
             /\ Take(size.rest, Len(code)) = code
             /\ EntriesExact(Drop(size.rest, Len(code)), Tail(functions))

\* what a well-formed section decodes to
SectionContent(part) == parse_section(SectionId(part), part).value

\* the input of SpecParse is a good preamble followed by well-formed
\* sections in canonical order
Canonical ==
    /\ Len(binary) >= Len(Header)
    /\ Take(binary, Len(Header)) = Header
    /\ \A i \in 1..Len(layout) : layout[i] \in WellFormedSections
    /\ InCanonicalOrder(layout)

\* exactly one of the Function and Code sections is in the input, or both
\* are and their entry counts differ
FunctionPartsMismatch ==
    LET signatures == WithId(layout, SecFunction)
        codes == WithId(layout, SecCode)
    IN  \/ (signatures = <<>>) # (codes = <<>>)
        \/ /\ signatures # <<>>
           /\ codes # <<>>
           /\ Len(SectionContent(signatures[1])) # Len(SectionContent(codes[1]))

\* the functions of the input: the i-th type index with the i-th code entry
ExpectedFunctions ==
    LET signatures == WithId(layout, SecFunction)
        codes == WithId(layout, SecCode)
    IN  IF signatures = <<>> /\ codes = <<>> THEN None
        ELSE LET kinds == SectionContent(signatures[1])
                 bodies == SectionContent(codes[1])
             IN  Some([i \in 1..Len(kinds) |->
                          Function(kinds[i], bodies[i].locals, bodies[i].body)])

\* the contents of the custom sections at the front of the pieces
RECURSIVE CustomRun(_)
CustomRun(pieces) ==
    IF pieces = <<>> \/ SectionId(Head(pieces)) # SecCustom THEN <<>>
    ELSE <<SectionContent(Head(pieces))>> \o CustomRun(Tail(pieces))

\* the pieces of the input behind the section of an insertion point
PiecesAfter(point) ==
    IF point = SecCustom THEN layout
    ELSE IF \E i \in 1..Len(layout) : SectionId(layout[i]) = point
    THEN Drop(layout, CHOOSE i \in 1..Len(layout) : SectionId(layout[i]) = point)
    ELSE <<>>

ExpectedBucket(point) ==
    IF CustomRun(PiecesAfter(point)) = <<>> THEN None
    ELSE Some(CustomRun(PiecesAfter(point)))

\* the custom sections of the module as sections, bucket after bucket in
\* the order of the insertion points
BucketFrames(point) ==
    [i \in 1..Len(SectionItems(module.custom_sections[point])) |->
        emit_section(SecCustom,
                     emit_custom_content(SectionItems(module.custom_sections[point])[i]))]

ExpectedCustomFrames ==
    Concat([k \in 1..(Len(ParseOrder) + 1) |->
               BucketFrames((<<SecCustom>> \o ParseOrder)[k])])

(***************************************************************************)
(* Properties                                                              *)
(***************************************************************************)
\* C1, as stated: once the bytes emit_binary wrote for a module have been
\* parsed, parse_binary has succeeded and returned a module equal to it.
C1_RoundTrip ==
    pc = "parsed" => parsed.ok /\ Module_eq(parsed.value, module)

\* C2: in every emitted binary the ids of the non-custom sections follow the
\* order Type, Import, Function, Table, Memory, Global, Export, Start,
\* Element, DataCount, Code, Data, and none occurs twice.
C2_SectionOrder == Emitted => SectionsTile /\ InCanonicalOrder(layout)

C2_Witness ==
    /\ pc = "emitted"
    /\ WithId(layout, SecDataCount) # <<>>
    /\ WithId(layout, SecCode) # <<>>
    /\ WithId(layout, SecData) # <<>>
    /\ Len(NonCustom(layout)) >= 5

\* C3: every emitted section's length is the number of bytes between it and
\* the next section (or the end of the output), and every code entry's size
\* is the number of bytes of the function's locals and body behind it.
C3_LengthsExact ==
    Emitted =>
        /\ SectionsTile
        /\ \A i \in 1..Len(layout) : SizePrefixed(Tail(layout[i]))
        /\ \A i \in 1..Len(layout) :
              SectionId(layout[i]) = SecCode =>
                  /\ parse_unsigned(Payload(layout[i]), 32).ok
                  /\ parse_unsigned(Payload(layout[i]), 32).value
                        = Len(SectionItems(module.functions))
                  /\ EntriesExact(parse_unsigned(Payload(layout[i]), 32).rest,
                                  SectionItems(module.functions))

C3_Witness ==
    /\ pc = "emitted"
    /\ WithId(layout, SecCode) # <<>>
    /\ Len(SectionItems(module.functions)) >= 2
    /\ \E i \in 1..Len(SectionItems(module.functions)) :
          Unwrap(module.functions)[i].locals # <<>>
    /\ Len(layout) >= 4

\* C4: parse_binary returns a module only for a good preamble followed by
\* complete, well-formed sections whose non-custom ids follow the canonical
\* order, each at most once; a repeated or out-of-order section and bytes
\* left over make it return an error.
C4_OnlyCanonical == pc = "parsed" /\ parsed.ok => Canonical

C4_Witness ==
    /\ pc = "parsed"
    /\ ~parsed.ok
    /\ layout = <<TypeSec, CustomA, TypeSec>>
    /\ Take(binary, Len(Header)) = Header

\* C5, as stated: parse_binary fails with MismatchedFunctionParts whenever
\* exactly one of the Function and Code sections is present or both are
\* with different entry counts (here: in an input with a good preamble).
C5_MismatchAlways ==
    pc = "parsed" /\ Take(binary, Len(Header)) = Header /\ FunctionPartsMismatch =>
        ~parsed.ok /\ parsed.err = "MismatchedFunctionParts"

\* C5, amended: for a good preamble followed by well-formed sections in
\* canonical order, parse_binary fails with MismatchedFunctionParts when
\* exactly one of the Function and Code sections is present or both are with
\* different entry counts, and otherwise returns a module whose functions
\* pair the i-th type index with the i-th locals and body (absent when both
\* sections are).
C5_MismatchCanonical ==
    pc = "parsed" /\ Canonical =>
        /\ FunctionPartsMismatch => ~parsed.ok /\ parsed.err = "MismatchedFunctionParts"
        /\ parsed.ok => parsed.value.functions = ExpectedFunctions

C5_Witness ==
    /\ pc = "parsed"
    /\ Canonical
    /\ layout = <<FunctionSec2, DataCountSec1, CodeSec1>>
    /\ parsed.err = "MismatchedFunctionParts"

\* C6, as stated: a module parse_binary returns with a data count of Some(n)
\* has n data segments.
C6_DataCountMatches ==
    pc = "parsed" /\ parsed.ok /\ IsSome(parsed.value.data_count) =>
        Unwrap(parsed.value.data_count) = Len(SectionItems(parsed.value.data))

\* C7, as stated: emit_binary of Module::empty() writes the 8 bytes of the
\* preamble and nothing more.
C7_EmptyModule == Emitted /\ Module_eq(module, Module_empty) => binary = Header

\* C8, as stated: the custom sections of an emitted binary are those of the
\* module's buckets, each once, and no others.
C8_CustomsEmitted == Emitted => Customs(layout) = ExpectedCustomFrames

\* C9: on success every custom section of the input is in the bucket of the
\* non-custom section that most recently preceded it (the bucket of
\* ModuleSection::Custom when none did), in input order, none dropped and
\* none twice; a bucket without a custom section is absent.
C9_Buckets ==
    pc = "parsed" /\ parsed.ok =>
        \A point \in ModuleSections :
            parsed.value.custom_sections[point] = ExpectedBucket(point)

C9_Witness ==
    /\ pc = "parsed"
    /\ parsed.ok
    /\ layout = <<MemorySec, CustomB, CustomA>>
    /\ parsed.value.custom_sections[SecMemory]
          = Some(<<[name |-> <<98>>, bytes |-> <<>>], [name |-> <<97>>, bytes |-> <<1>>]>>)

\* C10, as stated: parse_signed::<i32> of the bytes encode_signed wrote for
\* an i32 value returns that value and leaves no input.
C10_SignedRoundTrip ==
    /\ pc # "diverged"
    /\ pc = "decoded" => parsed.ok /\ parsed.value = value /\ parsed.rest = <<>>

\* C11, as stated: encode_signed returns for every signed input, having
\* written at least one byte, with the continuation bit clear on the last
\* byte only, and the sign bit of the last byte 0 for a value that ended at 0
\* and 1 for a value that ended at -1.
C11_SignedTerminates ==
    pc \in {"encoded", "diverged"} =>
        /\ pc = "encoded"
        /\ Len(binary) >= 1
        /\ \A i \in 1..Len(binary) : (binary[i] >= RADIX) <=> (i < Len(binary))
        /\ bit_at(binary[Len(binary)], SIGN_BIT) <=> (value < 0)

\* C12: for a u32 value, parse_unsigned::<u32> and parse_u32 of the bytes
\* encode_unsigned wrote both return the value and leave no input.
C12_UnsignedRoundTrip ==
    pc \in {"decoded", "decoded_u32"} =>
        parsed.ok /\ parsed.value = value /\ parsed.rest = <<>>

\* u32::MAX took five bytes and came back through parse_u32
C12_Witness ==
    /\ pc = "decoded_u32"
    /\ value = [hi |-> Pow2(32 - LimbBits) - 1, lo |-> Pow2(LimbBits) - 1]
    /\ Len(binary) = max_leb128_size(32)
    /\ parsed.ok
    /\ parsed.value = value

\* C13, as stated: parse_unsigned::<u32> of five bytes with the continuation
\* bit followed by one without fails with LEB128Error::Overflow.
C13_SixByteOverflow ==
    pc = "chain_decoded" => ~parsed.ok /\ parsed.err = "Overflow"

\* C14, as stated: the bytes the emitter writes for an expression holding
\* i32.const v or i64.const v parse back to that expression.
C14_ConstantRoundTrip ==
    pc = "expression_parsed" /\ value.op \in {"I32Constant", "I64Constant"} =>
        parsed.ok /\ parsed.value = <<value>> /\ parsed.rest = <<>>

\* C15, as stated: the bytes the emitter writes for CallIndirect(a, b) parse
\* back to CallIndirect(a, b).
C15_CallIndirectRoundTrip ==
    pc = "expression_parsed" /\ value.op = "CallIndirect" =>
        parsed.ok /\ parsed.value = <<value>> /\ parsed.rest = <<>>

\* C16, as stated: parse_block_type of the bytes emit_block_type wrote for a
\* block type returns that block type and leaves no input; so the bytes of
\* Index(i) never parse as None or as a value type.
C16_BlockTypeRoundTrip ==
    pc = "block_type_parsed" =>
        parsed.ok /\ parsed.value = value /\ parsed.rest = <<>>

\* C17, as stated: parse_element of the bytes emit_element wrote for an
\* element segment consumes them all and returns an equal segment.
C17_ElementRoundTrip ==
    pc = "element_parsed" =>
        parsed.ok /\ parsed.value = value /\ parsed.rest = <<>>

\* the add_* calls that return an index of one of the four index spaces
\* with imports, by kind
DefinedOp(kind) ==
    CASE kind = "Function" -> "add_function"
      [] kind = "Table" -> "add_table"
      [] kind = "Memory" -> "add_memory"
      [] kind = "Global" -> "add_global"

DefinedField(kind) ==
    CASE kind = "Function" -> "functions"
      [] kind = "Table" -> "tables"
      [] kind = "Memory" -> "memories"
      [] kind = "Global" -> "globals"

IsDefinedCall(call) == call.kind \in ImportKinds /\ call.op = DefinedOp(call.kind)

IsImportCall(call) == call.op = "add_import"

\* the calls are add_* calls only, and no import of a kind comes after a
\* defined item of that kind
ImportsFirst ==
    /\ \A k \in 1..Len(value) : value[k].op \notin {"set", "set_imports"}
    /\ \A i \in 1..Len(value), j \in 1..Len(value) :
          i < j /\ IsDefinedCall(value[i]) /\ IsImportCall(value[j])
              => value[i].kind # value[j].kind

\* the position of the item of the k-th call in its kind's index space once
\* all calls are made: imports first, then definitions, in insertion order
Position(k) ==
    LET kind == value[k].kind
        importsBefore == Cardinality({i \in 1..(k - 1) :
                            IsImportCall(value[i]) /\ value[i].kind = kind})
        importsAll == Cardinality({i \in 1..Len(value) :
                            IsImportCall(value[i]) /\ value[i].kind = kind})
        definedBefore == Cardinality({i \in 1..(k - 1) :
                            IsDefinedCall(value[i]) /\ value[i].kind = kind})
    IN  IF IsImportCall(value[k]) THEN importsBefore ELSE importsAll + definedBefore

\* C18: add_function, add_table, add_memory and add_global return the number
\* of imports of the kind in the builder plus the number of items of the kind
\* in it before the call; and when the calls are add_* calls with every
\* import of a kind made before the first defined item of that kind, every
\* index returned is the item's position in its index space (so the indices
\* of a kind are pairwise distinct).
C18_ReturnedIndices ==
    pc = "calling" =>
        /\ \A k \in 1..Len(value) :
              IsDefinedCall(value[k]) /\ value[k].result.ok =>
                  value[k].result.value
                      = WideAdd(ImportCount(value[k].before, value[k].kind),
                                VecLen(value[k].before[DefinedField(value[k].kind)]))
        /\ ImportsFirst =>
              \A k \in 1..Len(value) :
                  IsDefinedCall(value[k]) \/ IsImportCall(value[k]) =>
                      value[k].result.ok /\ value[k].result.value = Wide(Position(k))

\* two function imports, then a function that gets index 2
C18_Witness ==
    /\ pc = "calling"
    /\ Len(value) = 3
    /\ ImportsFirst
    /\ value[1].op = "add_import" /\ value[1].kind = "Function"
    /\ value[2].op = "add_import" /\ value[2].kind = "Function"
    /\ value[3].op = "add_function"
    /\ value[3].result = Ok(Wide(2), <<>>)

\* the add_* calls that return an index
IndexedOps ==
    {"add_function_type", "add_function", "add_table", "add_memory", "add_global",
     "add_element", "add_data", "add_import"}

\* the number of items of the call's kind in the builder the call was made
\* on, same-kind imports included for the four kinds that have imports
CountBefore(call) ==
    CASE call.op = "add_function_type" -> VecLen(call.before.function_types)
      [] call.op = "add_element" -> VecLen(call.before.elements)
      [] call.op = "add_data" -> VecLen(call.before.data)
      [] call.op = "add_export" -> VecLen(call.before.exports)
      [] call.op = "add_import" -> ImportCount(call.before, call.kind)
      [] IsDefinedCall(call) ->
            WideAdd(ImportCount(call.before, call.kind),
                    VecLen(call.before[DefinedField(call.kind)]))

\* C19: every add_* call fails with IndexOverflow when the number
\* of items after the addition does not fit a u32.
C19_OverflowOfCount ==
    pc = "calling" =>
        \A k \in 1..Len(value) :
            value[k].op \in IndexedOps \cup {"add_export"}
            /\ ~FitsUnsigned(WideAdd(CountBefore(value[k]), Wide(1)), 32)
                => ~value[k].result.ok /\ value[k].result.err = "IndexOverflow"

\* the number of data segments in the builder
DataSegments(m) == IF IsSome(m.data) THEN Len(Unwrap(m.data)) ELSE 0

C21_ReturnedBytes == pc \in {"emitted", "parsed"} => value = Len(binary)

\* a limit with a maximum has its minimum at or below it
LimitOrdered(limit) == IsSome(limit.max) => limit.min <= Unwrap(limit.max)

SameBucket(a, b, point) ==
    LET x == custom_sections_at(a, point)
        y == custom_sections_at(b, point)
    IN  /\ IsSome(x) <=> IsSome(y)
        /\ IsSome(x) /\ IsSome(y) =>
              /\ Len(Unwrap(x)) = Len(Unwrap(y))
              /\ \A i \in 1..Len(Unwrap(x)) :
                    /\ Unwrap(x)[i].name = Unwrap(y)[i].name
                    /\ Unwrap(x)[i].bytes = Unwrap(y)[i].bytes

\* C23: two modules whose sections are equal are equal exactly when they have
\* buckets at the same insertion points and each bucket holds the same custom
\* sections in the same order; the relation is reflexive and symmetric.
C23_EqualityPerBucket ==
    pc = "comparing" =>
        /\ Module_eq(module, value) <=> \A point \in ModuleSections : SameBucket(module, value, point)
        /\ Module_eq(module, module) /\ Module_eq(value, value)
        /\ Module_eq(module, value) <=> Module_eq(value, module)

\* the same two custom sections in one bucket, in the two orders
C23_Witness ==
    /\ pc = "comparing"
    /\ IsSome(custom_sections_at(module, SecData))
    /\ IsSome(custom_sections_at(value, SecData))
    /\ Len(Unwrap(custom_sections_at(module, SecData))) = 2
    /\ Unwrap(custom_sections_at(module, SecData))[1] # Unwrap(custom_sections_at(module, SecData))[2]
    /\ Unwrap(custom_sections_at(value, SecData))
          = << Unwrap(custom_sections_at(module, SecData))[2],
               Unwrap(custom_sections_at(module, SecData))[1] >>
    /\ ~Module_eq(module, value)

\* C24: no two distinct instruction variants are written with the same
\* opcode byte, or with the same prefix 0xFC and sub-opcode.
C24_OpcodesInjective ==
    pc = "opcode_emitted" =>
        \A other \in InstructionVariants : other # value => emit_opcode(other) # binary

\* the unsigned i32 less-than, one byte after the signed one
C24_Witness ==
    /\ pc = "opcode_emitted"
    /\ value = "Numeric::LessThanInteger(I32, Unsigned)"
    /\ binary = <<73>>
    /\ emit_opcode("Numeric::LessThanInteger(I32, Signed)") = <<72>>

\* the tag for the mode of an element among the four function-index tags
\* (base 0) or the four expression tags (base 4)
ModeTag(element, base) ==
    CASE element.mode = "Active" /\ element.table = 0 /\ element.kind = "FuncRef" -> base
      [] element.mode = "Passive" -> base + 1
      [] element.mode = "Active" -> base + 2
      [] element.mode = "Declarative" -> base + 3

\* C25: emit_element writes a function-index tag (0x00..0x03) only for an
\* element of type funcref whose initializers are all single ref.func
\* instructions, and the expression tag 0x04..0x07 of its mode for every
\* other element.
C25_ElementTag ==
    pc \in {"element_emitted", "element_parsed"} =>
        binary[1] = IF value.kind = "FuncRef" /\ is_function_indices(value.initializers)
                    THEN ModeTag(value, 0)
                    ELSE ModeTag(value, 4)

\* C26: parse_u32 rejects a five-byte encoding whose value does not fit in
\* 32 bits, returns the value of one that fits, and rejects every encoding
\* of six bytes.
C26_U32Rejected ==
    /\ pc = "five_decoded_u32" =>
          IF FitsUnsigned(FoldGroups(binary, Len(binary)), 32)
          THEN parsed.ok /\ parsed.value = FoldGroups(binary, Len(binary))
          ELSE ~parsed.ok
    /\ pc = "chain_decoded_u32" => ~parsed.ok

C28_LocalsExpanded ==
    /\ pc \in {"locals_emitted", "locals_parsed"} =>
          binary = emit_usize(Len(value))
                   \o EncodeRuns([i \in 1..Len(value) |-> <<1, value[i]>>])
                   \o <<EXPRESSION_END>>
    /\ pc \in {"locals_parsed", "runs_parsed"} =>
          parsed.ok /\ parsed.value = value /\ parsed.rest = <<EXPRESSION_END>>

\* two runs of the same type around an empty run, read as three locals
C28_Witness ==
    /\ pc = "runs_parsed"
    /\ layout = <<<<2, "I32">>, <<0, "F64">>, <<1, "I32">>>>
    /\ binary = <<3, 2, 127, 0, 124, 1, 127, 11>>
    /\ parsed.ok
    /\ parsed.value = <<"I32", "I32", "I32">>

\* the builder a call of the log left behind
BuilderAfter(i) == IF i < Len(value) THEN value[i + 1].before ELSE module

\* C29: an add_* call that returns Err(IndexOverflow) leaves the builder's
\* module as it was before the call: nothing is appended and no section
\* that was absent is present and empty afterwards.
C29_FailedCallNoEffect ==
    pc = "calling" =>
        \A i \in 1..Len(value) :
            ~value[i].result.ok => BuilderAfter(i) = value[i].before

\* the module the last call of SpecEquality was made on, after the call,
\* and the module of the other builder
CalledModule == IF layout.builder = 1 THEN module ELSE value

OtherModule == IF layout.builder = 1 THEN value ELSE module

BucketItems(bucket) == IF IsSome(bucket) THEN Unwrap(bucket) ELSE <<>>

====
